---------------------------- MODULE Spec2Model ----------------------------
(***************************************************************************)
(* A model of the shared utility layer of the repository: the arena-indexed *)
(* adjacency-list Graph (src/utils/graph.rs), the Grid family               *)
(* (src/utils/grid/*.rs) and Coordinate (src/utils/coordinate_system.rs);   *)
(* and of the algorithms of days 6, 13, 15 and 16 built on that layer.      *)
(*                                                                          *)
(* Rust vectors are modelled as TLA+ sequences.  Rust indices are 0-based:  *)
(* the element with Rust index k is the (k+1)-th element of the sequence.   *)
(* Option<EdgePtr>::None is modelled by the value None.                     *)
(***************************************************************************)
EXTENDS Integers, Sequences, FiniteSets, TLC

(***************************************************************************)
(* Bounds of the model.                                                     *)
(***************************************************************************)
MaxNodes == 2
MaxEdges == 2
MaxRows == 2
MaxCols == 2

NodeData == {"A", "B"}
EdgeData == {1, 2}

\* The cell values T of the grids.
Vals == {0, 1}

None == -1

\* Rust's vec[idx]: the element with 0-based index idx.
At(s, idx) == s[idx + 1]

InBounds(s, idx) == idx >= 0 /\ idx < Len(s)

VARIABLES
    nodes,      \* Graph::nodes : Vec<Node<N>>
    edges,      \* Graph::edges : Vec<Edge<E>>
    ptrs,       \* the NodePtr values the graph has handed out to its caller
    calls,      \* history: the add_edge calls made so far, <<from, to, data>>
    by_data_only, \* history: every mutation so far was an add_edge_by_data call
    gpanic      \* TRUE once an operation of the graph has panicked

graphVars == <<nodes, edges, ptrs, calls, by_data_only, gpanic>>

VARIABLES
    grid,       \* the grid under test: [kind, ROW, COL, matrix]
    gret,       \* what the last grid operation returned
    it          \* the iteration in progress over the grid, if any

gridVars == <<grid, gret, it>>

VARIABLES
    walk,       \* a Coordinate and the directions added to it
    parsed,     \* a line of text and what Coordinate::from_str made of it
    machine,    \* day 13: a claw machine and the answers of its two solvers
    office,     \* day 6: the OfficePlan and the simulation of the guard
    maze,       \* day 16: the ReindeerMaze and the search for the lowest cost
    warehouse   \* day 15: the WarehouseRobot, its map and the moves made

\* The variables of the parts of the program other than the graph and the grid.
restVars == <<walk, parsed, machine, office, maze, warehouse>>

vars == <<nodes, edges, ptrs, calls, by_data_only, gpanic, grid, gret, it,
          walk, parsed, machine, office, maze, warehouse>>

(***************************************************************************)
(* Graph (src/utils/graph.rs).  A graph value is the record                 *)
(* [nodes, edges, calls, panic]; calls and panic are bookkeeping of the     *)
(* model (the add_edge calls made, and whether an index went out of range). *)
(***************************************************************************)
TheGraph == [nodes |-> nodes, edges |-> edges, calls |-> calls, panic |-> gpanic]

\* Graph::new
new == [nodes |-> <<>>, edges |-> <<>>, calls |-> <<>>, panic |-> FALSE]

\* Graph::len
len(g) == Len(g.nodes)

\* Graph::get : &self.nodes[node_index.idx].data  ("panic" when out of range)
get(g, node_index) ==
    IF InBounds(g.nodes, node_index) THEN At(g.nodes, node_index).data ELSE "panic"

\* Mutant of find_node_index: the last matching node instead of the first
\* (iter().rev().find(..)).
find_node_index_last(g, data) ==
    LET hits == {k \in 1..Len(g.nodes) : g.nodes[k].data = data}
    IN  IF hits = {} THEN None
        ELSE g.nodes[CHOOSE k \in hits : \A h \in hits : k >= h].node_index

\* Graph::find_node_index : the node_index of the first node whose data
\* satisfies the predicate (here: equals data), or None.
find_node_index(g, data) ==
    LET hits == {k \in 1..Len(g.nodes) : g.nodes[k].data = data}
    IN  IF hits = {} THEN None
        ELSE g.nodes[CHOOSE k \in hits : \A h \in hits : k <= h].node_index

\* Mutant of add_node_ptr: the index taken after the push instead of before.
add_node_ptr_after_push(g) == Len(g.nodes) + 1

\* Graph::add_node : the pointer it returns
add_node_ptr(g) == Len(g.nodes)

\* Graph::add_node : the graph after the call
add_node(g, data) ==
    [g EXCEPT !.nodes = Append(@, [data       |-> data,
                                   node_index |-> add_node_ptr(g),
                                   first_edge |-> None])]

\* Mutant of add_edge: the new edge's index taken after the push.
add_edge_index_after_push(g, from, to, edge_data) ==
    IF g.panic \/ ~InBounds(g.nodes, from)
    THEN [g EXCEPT !.panic = TRUE]
    ELSE LET new_edge_index == Len(g.edges) + 1
         IN  [g EXCEPT
                !.edges = Append(@, [data      |-> edge_data,
                                     to        |-> to,
                                     next_edge |-> At(g.nodes, from).first_edge]),
                !.nodes[from + 1].first_edge = new_edge_index,
                !.calls = Append(@, <<from, to, edge_data>>)]

\* Mutant of add_edge: the new edge is not linked to the node's previous edges.
add_edge_unlinked(g, from, to, edge_data) ==
    IF g.panic \/ ~InBounds(g.nodes, from)
    THEN [g EXCEPT !.panic = TRUE]
    ELSE LET new_edge_index == Len(g.edges)
         IN  [g EXCEPT
                !.edges = Append(@, [data      |-> edge_data,
                                     to        |-> to,
                                     next_edge |-> None]),
                !.nodes[from + 1].first_edge = new_edge_index,
                !.calls = Append(@, <<from, to, edge_data>>)]

\* Mutant of add_edge: the new edge is chained to the edge list of `to'.
add_edge_chain_of_to(g, from, to, edge_data) ==
    IF g.panic \/ ~InBounds(g.nodes, from) \/ ~InBounds(g.nodes, to)
    THEN [g EXCEPT !.panic = TRUE]
    ELSE LET new_edge_index == Len(g.edges)
         IN  [g EXCEPT
                !.edges = Append(@, [data      |-> edge_data,
                                     to        |-> to,
                                     next_edge |-> At(g.nodes, to).first_edge]),
                !.nodes[from + 1].first_edge = new_edge_index,
                !.calls = Append(@, <<from, to, edge_data>>)]

\* Graph::add_edge
add_edge(g, from, to, edge_data) ==
    IF g.panic \/ ~InBounds(g.nodes, from)
    THEN [g EXCEPT !.panic = TRUE]
    ELSE LET new_edge_index == Len(g.edges)
         IN  [g EXCEPT
                !.edges = Append(@, [data      |-> edge_data,
                                     to        |-> to,
                                     next_edge |-> At(g.nodes, from).first_edge]),
                !.nodes[from + 1].first_edge = new_edge_index,
                !.calls = Append(@, <<from, to, edge_data>>)]


\* Relationship<E> : BiDirectional { a_to_b, b_to_a } | AToB(E) | BToA(E)
Relationship ==
    [kind : {"BiDirectional"}, a_to_b : EdgeData, b_to_a : EdgeData]
    \cup [kind : {"AToB", "BToA"}, a_to_b : EdgeData, b_to_a : {None}]

\* Graph::add_edge_by_data : the first match arm (a_index) and the graph after it
add_edge_by_data_a(g, node_a) ==
    LET found == find_node_index(g, node_a)
    IN  IF found = None
        THEN [g |-> add_node(g, node_a), idx |-> add_node_ptr(g)]
        ELSE [g |-> g, idx |-> found]

\* Graph::add_edge_by_data : the second match arm (b_index), evaluated on the
\* graph left by the first
add_edge_by_data_b(g, node_b) ==
    LET found == find_node_index(g, node_b)
    IN  IF found = None
        THEN [g |-> add_node(g, node_b), idx |-> add_node_ptr(g)]
        ELSE [g |-> g, idx |-> found]

\* Graph::add_edge_by_data
add_edge_by_data(g, node_a, node_b, relatoinship) ==
    LET a  == add_edge_by_data_a(g, node_a)
        b  == add_edge_by_data_b(a.g, node_b)
    IN  CASE relatoinship.kind = "BiDirectional" ->
                add_edge(add_edge(b.g, a.idx, b.idx, relatoinship.a_to_b),
                         b.idx, a.idx, relatoinship.b_to_a)
          [] relatoinship.kind = "AToB" ->
                add_edge(b.g, a.idx, b.idx, relatoinship.a_to_b)
          [] relatoinship.kind = "BToA" ->
                add_edge(b.g, b.idx, a.idx, relatoinship.a_to_b)

\* Graph::get_edge followed by the body of Neighbours::next for Some(edge_index):
\* the item yielded and the iterator's next cursor.
NeighboursNext(g, edge_index) ==
    LET edge == At(g.edges, edge_index)
    IN  [item |-> <<edge.to, edge.data>>, edges |-> edge.next_edge]

\* Running a Neighbours iterator to its end from the cursor `cursor`: the items
\* yielded and how the run ended.  "panic" is an edge index out of range in
\* get_edge; "diverge" is a run still going after `fuel' calls of next.
RECURSIVE NeighboursRun(_, _, _)
NeighboursRun(g, cursor, fuel) ==
    IF cursor = None THEN [items |-> <<>>, end |-> "done"]
    ELSE IF ~InBounds(g.edges, cursor) THEN [items |-> <<>>, end |-> "panic"]
    ELSE IF fuel = 0 THEN [items |-> <<>>, end |-> "diverge"]
    ELSE LET step == NeighboursNext(g, cursor)
             rest == NeighboursRun(g, step.edges, fuel - 1)
         IN  [items |-> <<step.item>> \o rest.items, end |-> rest.end]

\* Graph::neighbours_iter, collected
neighbours_iter(g, node_index) ==
    IF ~InBounds(g.nodes, node_index) THEN [items |-> <<>>, end |-> "panic"]
    ELSE NeighboursRun(g, At(g.nodes, node_index).first_edge, Len(g.edges))

\* impl Debug for Graph : how the formatter ends.  For every node it walks the
\* edge list and indexes self.nodes[edge.to.idx] for every edge on it.
DebugFmt(g) ==
    LET run(k) == NeighboursRun(g, g.nodes[k].first_edge, Len(g.edges))
        bad(k) == \/ run(k).end # "done"
                  \/ \E i \in 1..Len(run(k).items) :
                        ~InBounds(g.nodes, run(k).items[i][1])
    IN  IF \E k \in 1..Len(g.nodes) : bad(k) THEN "panic" ELSE "ok"

(***************************************************************************)
(* The operations of the graph as actions.  The caller only passes NodePtr  *)
(* values the graph gave it (ptrs): add_node returns one, find_node_index   *)
(* returns one, and neighbours_iter yields the `to' pointers of the edges.  *)
(* A panic ends the program: no action is enabled after it.                 *)
(***************************************************************************)
Install(g) ==
    /\ nodes'  = g.nodes
    /\ edges'  = g.edges
    /\ calls'  = g.calls
    /\ gpanic' = g.panic

GraphFresh ==
    /\ nodes  = new.nodes
    /\ edges  = new.edges
    /\ calls  = new.calls
    /\ gpanic = new.panic
    /\ ptrs   = {}
    /\ by_data_only = TRUE

\* No grid has been built yet.
NoGrid == [kind |-> "none", ROW |-> 0, COL |-> 0, matrix |-> <<>>]

NoRet == [tag |-> "None", ref |-> <<>>, val |-> None]

\* No row iterator in hand.
NoInner == [row_item |-> [row |-> 0, start |-> 0, len |-> 0], row |-> 0, col |-> 0]

\* A..B of std::ops::Range<usize>
Range(start, end) == [start |-> start, end |-> end]

NoView == [row |-> Range(0, 0), col |-> Range(0, 0)]

NoOuter == [row |-> 0, col |-> 0, view |-> NoView]

NoIter ==
    [mode |-> "none", phase |-> "done", outer |-> NoOuter, inner |-> NoInner,
     out |-> <<>>, acc |-> <<>>]

GridFresh ==
    /\ grid = NoGrid
    /\ gret = [op |-> "none", arg |-> <<>>, res |-> NoRet]
    /\ it   = NoIter

\* Nothing has been made yet of the other parts of the program.
Idle == [tag |-> "none"]

RestFresh ==
    /\ walk = Idle
    /\ parsed = Idle
    /\ machine = Idle
    /\ office = Idle
    /\ maze = Idle
    /\ warehouse = Idle

Init == GraphFresh /\ GridFresh /\ RestFresh

AddNodeOp(data) ==
    /\ ~gpanic
    /\ Len(nodes) < MaxNodes
    /\ Install(add_node(TheGraph, data))
    /\ ptrs' = ptrs \cup {add_node_ptr(TheGraph)}
    /\ by_data_only' = FALSE
    /\ UNCHANGED <<gridVars, restVars>>

AddNode == \E data \in NodeData : AddNodeOp(data)

AddEdgeOp(from, to, edge_data) ==
    /\ ~gpanic
    /\ Len(edges) < MaxEdges
    /\ Install(add_edge(TheGraph, from, to, edge_data))
    /\ ptrs' = ptrs
    /\ by_data_only' = FALSE
    /\ UNCHANGED <<gridVars, restVars>>

AddEdge == \E from \in ptrs, to \in ptrs, edge_data \in EdgeData : AddEdgeOp(from, to, edge_data)

AddEdgeByDataOp(node_a, node_b, rel) ==
    LET g == add_edge_by_data(TheGraph, node_a, node_b, rel)
    IN  /\ ~gpanic
        /\ UNCHANGED <<ptrs, by_data_only>>
        /\ UNCHANGED <<gridVars, restVars>>
        /\ Len(g.nodes) <= MaxNodes
        /\ Len(g.edges) <= MaxEdges
        /\ Install(g)

AddEdgeByData ==
    \E node_a \in NodeData, node_b \in NodeData, rel \in Relationship :
        AddEdgeByDataOp(node_a, node_b, rel)

FindNodeIndex ==
    \E data \in NodeData :
        LET found == find_node_index(TheGraph, data)
        IN  /\ ~gpanic
            /\ ptrs' = IF found = None THEN ptrs ELSE ptrs \cup {found}
            /\ UNCHANGED <<nodes, edges, calls, gpanic, by_data_only>>
            /\ UNCHANGED <<gridVars, restVars>>

GetMut ==
    \E node_index \in ptrs, data \in NodeData :
        /\ ~gpanic
        /\ IF InBounds(nodes, node_index)
           THEN nodes' = [nodes EXCEPT ![node_index + 1].data = data] /\ gpanic' = gpanic
           ELSE nodes' = nodes /\ gpanic' = TRUE
        /\ by_data_only' = FALSE
        /\ UNCHANGED <<edges, calls, ptrs>>
        /\ UNCHANGED <<gridVars, restVars>>

NeighboursIter ==
    \E node_index \in ptrs :
        LET run == neighbours_iter(TheGraph, node_index)
        IN  /\ ~gpanic
            /\ gpanic' = (run.end # "done")
            /\ ptrs' = ptrs \cup {run.items[i][1] : i \in 1..Len(run.items)}
            /\ UNCHANGED <<nodes, edges, calls, by_data_only>>
            /\ UNCHANGED <<gridVars, restVars>>

NextGraph ==
    \/ AddNode
    \/ AddEdge
    \/ AddEdgeByData
    \/ FindNodeIndex
    \/ GetMut
    \/ NeighboursIter

SpecGraph == Init /\ [][NextGraph]_vars

(***************************************************************************)
(* Claims about the graph.                                                  *)
(***************************************************************************)
Reverse(s) == [i \in 1..Len(s) |-> s[Len(s) + 1 - i]]

\* The <<to, data>> pairs of the add_edge calls whose `from' was n, in call order.
RECURSIVE CallsFrom(_, _)
CallsFrom(cs, n) ==
    IF cs = <<>> THEN <<>>
    ELSE LET c == Head(cs)
         IN  (IF c[1] = n THEN << <<c[2], c[3]>> >> ELSE <<>>) \o CallsFrom(Tail(cs), n)

\* The number of positions of the sequence s that hold x.
Count(s, x) == Cardinality({i \in 1..Len(s) : s[i] = x})

NodeIdx == 0..(Len(nodes) - 1)

\* C3: in every reachable graph (NodePtr arguments being ones the graph handed
\* out) every first_edge, next_edge and `to' index is within the bounds of the
\* edges / nodes vectors, no operation has panicked, and get, neighbours_iter
\* and the Debug formatter run without indexing out of range.
C3_IndicesInBounds ==
    /\ ~gpanic
    /\ \A k \in 1..Len(nodes) :
          nodes[k].first_edge = None \/ InBounds(edges, nodes[k].first_edge)
    /\ \A e \in 1..Len(edges) :
          /\ edges[e].next_edge = None \/ InBounds(edges, edges[e].next_edge)
          /\ InBounds(nodes, edges[e].to)
    /\ \A p \in ptrs :
          /\ get(TheGraph, p) # "panic"
          /\ neighbours_iter(TheGraph, p).end = "done"
    /\ DebugFmt(TheGraph) = "ok"

\* C3 witness: a graph with two nodes and a two-edge neighbour list whose
\* pointers were all handed out.
C3_Witness ==
    /\ Len(nodes) = 2
    /\ Len(edges) = 2
    /\ ptrs = {0, 1}
    /\ \E e \in 1..Len(edges) : edges[e].next_edge # None

\* C4: add_node(data) returns a pointer equal to the number of nodes before the
\* call, grows len() by exactly one, get of that pointer is data, every node at
\* position k has node_index k, and the data and neighbour lists of the
\* existing nodes are unchanged.
C4_AddNode ==
    /\ [](\A k \in 1..Len(nodes) : nodes[k].node_index = k - 1)
    /\ [][\A data \in NodeData :
          AddNodeOp(data) =>
             /\ ptrs' \ ptrs = {len(TheGraph)}
             /\ len(TheGraph') = len(TheGraph) + 1
             /\ get(TheGraph', len(TheGraph)) = data
             /\ \A k \in 1..Len(nodes') : nodes'[k].node_index = k - 1
             /\ \A k \in NodeIdx :
                   /\ get(TheGraph', k) = get(TheGraph, k)
                   /\ neighbours_iter(TheGraph', k) = neighbours_iter(TheGraph, k)]_vars

\* C4 witness: add_node has acted on a graph that already had a node with an
\* edge: two nodes, both pointers returned, the first one with a neighbour.
C4_Witness ==
    /\ Len(nodes) = 2
    /\ ptrs = {0, 1}
    /\ nodes[1].first_edge # None
    /\ nodes[2].first_edge = None
    /\ \A e \in 1..Len(edges) : edges[e].to = 0

\* C5: no removal.  Over every step the numbers of nodes and of edges do not
\* decrease, every existing pointer keeps addressing the same data (unless
\* the step is a get_mut), and every pair neighbours_iter(n) yielded is still
\* yielded, as many times, afterwards.
C5_NoRemoval ==
    [][/\ Len(nodes') >= Len(nodes)
       /\ Len(edges') >= Len(edges)
       /\ GetMut \/ \A k \in NodeIdx : get(TheGraph', k) = get(TheGraph, k)
       /\ \A k \in NodeIdx :
             LET before == neighbours_iter(TheGraph, k).items
                 after  == neighbours_iter(TheGraph', k).items
             IN  \A i \in 1..Len(before) :
                    Count(after, before[i]) >= Count(before, before[i])]_vars

\* C5 witness: after add_node calls, a node that had a neighbour got a second
\* edge later.
C5_Witness ==
    /\ ~by_data_only
    /\ Len(nodes) = 2
    /\ \E k \in NodeIdx : Len(neighbours_iter(TheGraph, k).items) = 2

\* C6: neighbours_iter(n) ends, and yields exactly the <<to, data>> of the
\* add_edge calls whose from was n, most recent first; each edge's next_edge
\* is strictly smaller than the edge's own index.
C6_NeighboursAreCallsReversed ==
    /\ \A n \in NodeIdx :
          /\ neighbours_iter(TheGraph, n).end = "done"
          /\ neighbours_iter(TheGraph, n).items = Reverse(CallsFrom(calls, n))
    /\ \A e \in 1..Len(edges) :
          edges[e].next_edge = None \/ edges[e].next_edge < e - 1

\* C6 witness: a node with two distinct outgoing edges, one of them a self-loop,
\* while the other node has none.
C6_Witness ==
    /\ Len(nodes) = 2
    /\ Len(calls) = 2
    /\ calls[1][1] = 0 /\ calls[2][1] = 0
    /\ calls[1][2] = 0 /\ calls[2][2] = 1
    /\ calls[1] # calls[2]

\* The lowest index of a node holding data d, or None.
LowestWith(ns, d) ==
    IF \E k \in 1..Len(ns) : ns[k].data = d
    THEN (CHOOSE k \in 1..Len(ns) :
             /\ ns[k].data = d
             /\ \A h \in 1..(k - 1) : ns[h].data # d) - 1
    ELSE None

\* C7: add_edge_by_data(a, b, rel), called on any reachable graph, reuses the
\* lowest-indexed node holding a (resp. b) and creates a node only when there
\* is none (one node when a = b); a graph built solely through
\* add_edge_by_data holds no two nodes with equal data; BiDirectional adds
\* exactly a->b then b->a, AToB exactly a->b, BToA exactly b->a.
C7_AddEdgeByData ==
    /\ by_data_only =>
          \A k, h \in 1..Len(nodes) : nodes[k].data = nodes[h].data => k = h
    /\ \A node_a \in NodeData, node_b \in NodeData, rel \in Relationship :
          LET after   == add_edge_by_data(TheGraph, node_a, node_b, rel)
              missing == {d \in {node_a, node_b} : LowestWith(nodes, d) = None}
              ia == LowestWith(after.nodes, node_a)
              ib == LowestWith(after.nodes, node_b)
              ab == <<ia, ib, rel.a_to_b>>
              ba == <<ib, ia, IF rel.kind = "BToA" THEN rel.a_to_b ELSE rel.b_to_a>>
          IN  /\ ~after.panic
              /\ Len(after.nodes) = Len(nodes) + Cardinality(missing)
              /\ \A k \in 1..Len(nodes) : after.nodes[k].data = nodes[k].data
              /\ \A d \in {node_a, node_b} :
                    LowestWith(nodes, d) # None =>
                       LowestWith(after.nodes, d) = LowestWith(nodes, d)
              /\ ia # None /\ ib # None
              /\ after.calls = calls \o
                    (CASE rel.kind = "BiDirectional" -> <<ab, ba>>
                       [] rel.kind = "AToB"          -> <<ab>>
                       [] rel.kind = "BToA"          -> <<ba>>)
              /\ Len(after.edges) = Len(after.calls)

\* C7 witness: a graph built solely by add_edge_by_data that holds two nodes
\* and the two edges of a BiDirectional relationship.
C7_Witness ==
    /\ by_data_only
    /\ Len(nodes) = 2
    /\ calls = << <<0, 1, 1>>, <<1, 0, 2>> >>

\* C7 second witness state: add_edge_by_data reused the lower of two nodes
\* holding the same data.
C7_WitnessReuse ==
    /\ Len(nodes) = 2
    /\ nodes[1].data = nodes[2].data
    /\ Len(calls) = 1
    /\ calls[1][1] = 0 /\ calls[1][2] = 0
    /\ ptrs = {0, 1}

(***************************************************************************)
(* Grids (src/utils/grid).  A grid value is [kind, ROW, COL, matrix]: kind  *)
(* is "sized" (SizedGrid<T, ROW, COL>, matrix: [[T; COL]; ROW]) or          *)
(* "unsized" (UnsizedGrid<T>, matrix: Box<[Box<[T]>]>).  A Coordinate is    *)
(* [i, j].  A reference to a cell is modelled by the cell's place           *)
(* <<row, column>> (0-based) in the matrix.                                 *)
(***************************************************************************)
SeqsUpTo(S, n) == UNION {[1..k -> S] : k \in 0..n}

\* Coordinate::new
Coordinate(i, j) == [i |-> i, j |-> j]

\* i32::MAX
I32Max == 2147483647

\* `usize as i32` keeps the low 32 bits: a value up to i32::MAX is unchanged,
\* a value from 2^31 to 2^32 - 1 wraps to value - 2^32.
AsI32(n) == IF n <= I32Max THEN n ELSE n - I32Max - I32Max - 2

\* `i32 as usize` sign-extends: a value >= 0 is unchanged, a negative one
\* becomes 2^64 + i, an index beyond the end of every slice (the model takes
\* the largest index it can write down).
AsUsize(i) == IF i >= 0 THEN i ELSE I32Max

Some(ref, val) == [tag |-> "Some", ref |-> ref, val |-> val]

Panic == [tag |-> "panic", ref |-> <<>>, val |-> None]

\* matrix[i][j] on a slice of slices: a reference to the cell, or the
\* index-out-of-bounds panic.
Index2(matrix, i, j) ==
    IF InBounds(matrix, i) /\ InBounds(At(matrix, i), j)
    THEN Some(<<i, j>>, At(At(matrix, i), j))
    ELSE Panic

\* SizedGrid::new
SizedGrid_new(ROW, COL, matrix) ==
    [kind |-> "sized", ROW |-> ROW, COL |-> COL, matrix |-> matrix]

\* UnsizedGrid::from_box : the two assertions, then Self { matrix: grid }
UnsizedGrid_from_box(rows) ==
    IF Len(rows) > 0 /\ Len(rows[1]) > 0
    THEN [kind |-> "unsized", ROW |-> 0, COL |-> 0, matrix |-> rows]
    ELSE [kind |-> "panicked", ROW |-> 0, COL |-> 0, matrix |-> <<>>]

\* Mutant of UnsizedGrid_new: assert!(grid[0].len() > 0) is left out.
UnsizedGrid_new_first_row_unchecked(rows) ==
    IF Len(rows) > 0
    THEN [kind |-> "unsized", ROW |-> 0, COL |-> 0, matrix |-> rows]
    ELSE [kind |-> "panicked", ROW |-> 0, COL |-> 0, matrix |-> <<>>]

\* UnsizedGrid::new : boxes the rows, then the same two assertions
UnsizedGrid_new(rows) ==
    IF Len(rows) > 0 /\ Len(rows[1]) > 0
    THEN [kind |-> "unsized", ROW |-> 0, COL |-> 0, matrix |-> rows]
    ELSE [kind |-> "panicked", ROW |-> 0, COL |-> 0, matrix |-> <<>>]

\* UnsizedGrid::new_with_size : Self::new(vec![vec![default; cols]; rows])
UnsizedGrid_new_with_size(rows, cols, default) ==
    UnsizedGrid_new([r \in 1..rows |-> [c \in 1..cols |-> default]])

\* SizedGrid::num_rows / UnsizedGrid::num_rows
num_rows(g) == IF g.kind = "sized" THEN g.ROW ELSE Len(g.matrix)

\* SizedGrid::num_cols / UnsizedGrid::num_cols (self.matrix[0].len())
num_cols(g) == IF g.kind = "sized" THEN g.COL ELSE Len(At(g.matrix, 0))

\* Mutant of SizedGrid_is_valid_coordinate: the row index is compared with COL
\* and the column index with ROW.
SizedGrid_is_valid_coordinate_swapped(g, position) ==
    /\ position.i >= 0
    /\ position.j >= 0
    /\ position.i < AsI32(g.COL)
    /\ position.j < AsI32(g.ROW)

\* SizedGrid::is_valid_coordinate
SizedGrid_is_valid_coordinate(g, position) ==
    /\ position.i >= 0
    /\ position.j >= 0
    /\ position.i < AsI32(g.ROW)
    /\ position.j < AsI32(g.COL)

\* UnsizedGrid::is_valid_coordinate
UnsizedGrid_is_valid_coordinate(g, coordinate) ==
    /\ coordinate.i >= 0
    /\ coordinate.j >= 0
    /\ coordinate.i < AsI32(num_rows(g))
    /\ coordinate.j < AsI32(num_cols(g))

\* Grid::is_valid_coordinate (the two impls)
is_valid_coordinate(g, coordinate) ==
    IF g.kind = "sized"
    THEN SizedGrid_is_valid_coordinate(g, coordinate)
    ELSE UnsizedGrid_is_valid_coordinate(g, coordinate)

\* SizedGrid::get
SizedGrid_get(g, position) ==
    IF SizedGrid_is_valid_coordinate(g, position)
    THEN Index2(g.matrix, AsUsize(position.i), AsUsize(position.j))
    ELSE NoRet

\* UnsizedGrid::get
UnsizedGrid_get(g, coordinate) ==
    IF UnsizedGrid_is_valid_coordinate(g, coordinate)
    THEN Index2(g.matrix, AsUsize(coordinate.i), AsUsize(coordinate.j))
    ELSE NoRet

\* Grid::get (the two impls)
grid_get(g, coordinate) ==
    IF g.kind = "sized" THEN SizedGrid_get(g, coordinate) ELSE UnsizedGrid_get(g, coordinate)

\* SizedGrid::get_mut
SizedGrid_get_mut(g, position) ==
    IF SizedGrid_is_valid_coordinate(g, position)
    THEN Index2(g.matrix, AsUsize(position.i), AsUsize(position.j))
    ELSE NoRet

\* UnsizedGrid::get_mut
UnsizedGrid_get_mut(g, coordinate) ==
    IF UnsizedGrid_is_valid_coordinate(g, coordinate)
    THEN Index2(g.matrix, AsUsize(coordinate.i), AsUsize(coordinate.j))
    ELSE NoRet

\* GridMut::get_mut (the two impls)
grid_get_mut(g, coordinate) ==
    IF g.kind = "sized"
    THEN SizedGrid_get_mut(g, coordinate)
    ELSE UnsizedGrid_get_mut(g, coordinate)

\* Grid::get_row : &self.matrix[row]; a row slice is the part of row `row'
\* that starts at column `start' and has `len' cells.
get_row(g, row) ==
    IF InBounds(g.matrix, row)
    THEN [tag |-> "Some", row |-> row, start |-> 0, len |-> Len(At(g.matrix, row))]
    ELSE [tag |-> "panic", row |-> row, start |-> 0, len |-> 0]

\* *reference = val
Write(g, ref, val) == [g EXCEPT !.matrix[ref[1] + 1][ref[2] + 1] = val]

(***************************************************************************)
(* Building a grid, and get / get_mut on it.                                *)
(***************************************************************************)
Built == grid.kind \in {"sized", "unsized"}

\* A grid operation panicked: the program is over.
Crashed == grid.kind = "panicked" \/ gret.res.tag = "panic" \/ it.mode = "panic"

Ret(op, arg, res) == [op |-> op, arg |-> arg, res |-> res]

\* The coordinates the callers try: inside the grid, one past it, and negative.
Coords == {Coordinate(i, j) : i \in (-1)..MaxRows, j \in (-1)..MaxCols}

SizedNew ==
    \E ROW \in 0..MaxRows, COL \in 0..MaxCols :
        \E matrix \in [1..ROW -> [1..COL -> Vals]] :
            /\ grid.kind = "none"
            /\ grid' = SizedGrid_new(ROW, COL, matrix)
            /\ gret' = Ret("SizedGrid::new", <<ROW, COL>>, NoRet)
            /\ UNCHANGED <<it, graphVars, restVars>>

UnsizedNew ==
    \E rows \in SeqsUpTo(SeqsUpTo(Vals, MaxCols), MaxRows) :
        /\ grid.kind = "none"
        /\ grid' = UnsizedGrid_new(rows)
        /\ gret' = Ret("UnsizedGrid::new", rows, NoRet)
        /\ UNCHANGED <<it, graphVars, restVars>>

UnsizedFromBox ==
    \E rows \in SeqsUpTo(SeqsUpTo(Vals, MaxCols), MaxRows) :
        /\ grid.kind = "none"
        /\ grid' = UnsizedGrid_from_box(rows)
        /\ gret' = Ret("UnsizedGrid::from_box", rows, NoRet)
        /\ UNCHANGED <<it, graphVars, restVars>>

UnsizedNewWithSize ==
    \E rows \in 0..MaxRows, cols \in 0..MaxCols, default \in Vals :
        /\ grid.kind = "none"
        /\ grid' = UnsizedGrid_new_with_size(rows, cols, default)
        /\ gret' = Ret("UnsizedGrid::new_with_size", <<rows, cols, default>>, NoRet)
        /\ UNCHANGED <<it, graphVars, restVars>>

GridGetOp(coordinate) ==
    /\ Built /\ ~Crashed /\ it.mode = "none"
    /\ gret' = Ret("get", coordinate, grid_get(grid, coordinate))
    /\ UNCHANGED <<grid, it, graphVars, restVars>>

GridGet == \E coordinate \in Coords : GridGetOp(coordinate)

\* get_mut(coordinate), and *cell = val when it returned Some(cell)
GridGetMutOp(coordinate, val) ==
    LET res == grid_get_mut(grid, coordinate)
    IN  /\ Built /\ ~Crashed /\ it.mode = "none"
        /\ gret' = Ret("get_mut", coordinate, res)
        /\ grid' = IF res.tag = "Some" THEN Write(grid, res.ref, val) ELSE grid
        /\ UNCHANGED <<it, graphVars, restVars>>

GridGetMut == \E coordinate \in Coords, val \in Vals : GridGetMutOp(coordinate, val)

NextGrid ==
    \/ SizedNew
    \/ UnsizedNew
    \/ UnsizedFromBox
    \/ UnsizedNewWithSize
    \/ GridGet
    \/ GridGetMut

SpecGrid == Init /\ [][NextGrid]_vars

(***************************************************************************)
(* Claims about get / get_mut / is_valid_coordinate.                        *)
(***************************************************************************)
\* Every row of the matrix has as many cells as the first one.
Rectangular(g) == \A r \in 1..Len(g.matrix) : Len(g.matrix[r]) = Len(g.matrix[1])

\* The number of rows and of columns of a rectangular grid, read off the
\* matrix (off the type, for a SizedGrid without rows).
RowsOf(g) == Len(g.matrix)

ColsOf(g) == IF Len(g.matrix) = 0 THEN g.COL ELSE Len(g.matrix[1])

Inside(g, c) == 0 <= c.i /\ c.i < RowsOf(g) /\ 0 <= c.j /\ c.j < ColsOf(g)

\* What get / get_mut should return on a rectangular grid.
CellAt(g, c) ==
    IF Inside(g, c) THEN Some(<<c.i, c.j>>, g.matrix[c.i + 1][c.j + 1]) ELSE NoRet

\* C1: on a SizedGrid and on a rectangular UnsizedGrid with R rows and C
\* columns, is_valid_coordinate(c) is true exactly when 0 <= c.i < R and
\* 0 <= c.j < C, and get(c) / get_mut(c) return Some(the cell at row c.i,
\* column c.j) exactly then and None otherwise, negative i or j included.
C1_BoundsCheckedGet ==
    (Built /\ Rectangular(grid)) =>
        /\ \A c \in Coords :
              /\ is_valid_coordinate(grid, c) <=> Inside(grid, c)
              /\ grid_get(grid, c) = CellAt(grid, c)
              /\ grid_get_mut(grid, c) = CellAt(grid, c)
        /\ gret.op = "get" => gret.res = CellAt(grid, gret.arg)
        /\ gret.op = "get_mut" =>
              /\ gret.res.tag = CellAt(grid, gret.arg).tag
              /\ gret.res.ref = CellAt(grid, gret.arg).ref

\* C1 witness: get returned the last cell of a 2 x 2 UnsizedGrid whose cells
\* are not all equal.
C1_Witness ==
    /\ grid.kind = "unsized"
    /\ Rectangular(grid)
    /\ RowsOf(grid) = 2 /\ ColsOf(grid) = 2
    /\ grid.matrix[2][2] # grid.matrix[1][1]
    /\ gret.op = "get"
    /\ gret.arg = Coordinate(1, 1)
    /\ gret.res.tag = "Some"

\* C1, further states of its case: get returned None for a negative row on a
\* SizedGrid.
C1_WitnessNegative ==
    /\ grid.kind = "sized"
    /\ grid.ROW = 2 /\ grid.COL = 1
    /\ gret.op = "get"
    /\ gret.arg = Coordinate(-1, 0)
    /\ gret.res = NoRet

\* C2: on every UnsizedGrid that new / from_box accepted, get and get_mut
\* never index out of bounds: Some whenever is_valid_coordinate holds, None
\* otherwise, and no panic.
C2_GetNeverPanics ==
    (grid.kind = "unsized") =>
        /\ \A c \in Coords :
              /\ grid_get(grid, c).tag =
                    (IF is_valid_coordinate(grid, c) THEN "Some" ELSE "None")
              /\ grid_get_mut(grid, c).tag =
                    (IF is_valid_coordinate(grid, c) THEN "Some" ELSE "None")
        /\ gret.op \in {"get", "get_mut"} => gret.res.tag # "panic"

(***************************************************************************)
(* Iteration (src/utils/grid/mod.rs, grid_slice.rs and the GridIterMut of   *)
(* sized_grid.rs / unsized_grid.rs).  An outer iterator yields one row      *)
(* iterator per row; a row iterator yields (Coordinate, reference) items.   *)
(* A row slice &[T] is [row, start, len].  An item is [coord, ref, val]:    *)
(* the Coordinate, the place of the referenced cell, and the value read     *)
(* through the reference (None for a &mut T, which is not read).            *)
(***************************************************************************)
Item(coord, ref, val) == [coord |-> coord, ref |-> ref, val |-> val]

\* RowIter::new
RowIter_new(row_item, row, col) == [row_item |-> row_item, row |-> row, col |-> col]

\* GridIter::new
GridIter_new == [row |-> 0, col |-> 0, view |-> NoView]

\* GridIter::next : Some(row iterator) and the advanced GridIter, or None
GridIter_next(g, outer) ==
    IF outer.row < num_rows(g)
    THEN LET row_item == get_row(g, outer.row)
         IN  IF row_item.tag = "panic"
             THEN [tag |-> "panic", outer |-> outer, inner |-> NoInner]
             ELSE [tag   |-> "Some",
                   outer |-> [outer EXCEPT !.row = @ + 1],
                   inner |-> RowIter_new(row_item, outer.row, 0)]
    ELSE [tag |-> "None", outer |-> outer, inner |-> NoInner]

\* Mutant of RowIter_next: the coordinate is built as (col, row).
RowIter_next_transposed(g, inner) ==
    IF inner.col < inner.row_item.len
    THEN LET coordinate == Coordinate(AsI32(inner.col), AsI32(inner.row))
             ref == <<inner.row_item.row, inner.row_item.start + inner.col>>
         IN  [tag   |-> "Some",
              inner |-> [inner EXCEPT !.col = @ + 1],
              item  |-> Item(coordinate, ref, At(At(g.matrix, ref[1]), ref[2]))]
    ELSE [tag |-> "None", inner |-> inner, item |-> Item(Coordinate(0, 0), <<>>, None)]

\* RowIter::next : Some((coordinate, &row_item[col])) and the advanced
\* RowIter, or None
RowIter_next(g, inner) ==
    IF inner.col < inner.row_item.len
    THEN LET coordinate == Coordinate(AsI32(inner.row), AsI32(inner.col))
             ref == <<inner.row_item.row, inner.row_item.start + inner.col>>
         IN  [tag   |-> "Some",
              inner |-> [inner EXCEPT !.col = @ + 1],
              item  |-> Item(coordinate, ref, At(At(g.matrix, ref[1]), ref[2]))]
    ELSE [tag |-> "None", inner |-> inner, item |-> Item(Coordinate(0, 0), <<>>, None)]

\* Range::contains
contains(range, x) == range.start <= x /\ x < range.end

\* GridSlice::new
GridSlice_new(row, col) == [row |-> row, col |-> col]

\* GridSlice::row_as_slice : &self.grid.get_row(row)[self.col.clone()]
row_as_slice(g, view, row) ==
    LET whole == get_row(g, row)
    IN  IF \/ whole.tag = "panic"
           \/ view.col.start > view.col.end
           \/ view.col.end > whole.len
        THEN [tag |-> "panic", row |-> row, start |-> 0, len |-> 0]
        ELSE [tag   |-> "Some",
              row   |-> row,
              start |-> whole.start + view.col.start,
              len   |-> view.col.end - view.col.start]

\* GridViewIter::new
GridViewIter_new(view) ==
    [row |-> view.row.start, col |-> view.col.start, view |-> view]

\* GridViewIter::next
GridViewIter_next(g, outer) ==
    IF contains(outer.view.row, outer.row)
    THEN LET row_item == row_as_slice(g, outer.view, outer.row)
         IN  IF row_item.tag = "panic"
             THEN [tag |-> "panic", outer |-> outer, inner |-> NoInner]
             ELSE [tag   |-> "Some",
                   outer |-> [outer EXCEPT !.row = @ + 1],
                   inner |-> RowIter_new(row_item, outer.row, outer.col)]
    ELSE [tag |-> "None", outer |-> outer, inner |-> NoInner]

\* RowIterMut::new
RowIterMut_new(row_item, row) == [row_item |-> row_item, row |-> row, col |-> 0]

\* GridIterMut::new : grid.matrix.iter_mut().enumerate()
GridIterMut_new == [row |-> 0, col |-> 0, view |-> NoView]

\* GridIterMut::next (both grids): the next (row, row_item) of the enumeration
GridIterMut_next(g, outer) ==
    IF outer.row < Len(g.matrix)
    THEN [tag   |-> "Some",
          outer |-> [outer EXCEPT !.row = @ + 1],
          inner |-> RowIterMut_new([tag |-> "Some", row |-> outer.row, start |-> 0,
                                    len |-> Len(At(g.matrix, outer.row))],
                                   outer.row)]
    ELSE [tag |-> "None", outer |-> outer, inner |-> NoInner]

\* Mutant of RowIterMut_next: self.col is not advanced.
RowIterMut_next_col_stuck(inner) ==
    IF inner.row_item.len > 0
    THEN LET item == <<inner.row_item.row, inner.row_item.start>>
             rest == [inner.row_item EXCEPT !.start = @ + 1, !.len = @ - 1]
             coordinate == Coordinate(AsI32(inner.row), AsI32(inner.col))
         IN  [tag   |-> "Some",
              inner |-> [inner EXCEPT !.row_item = rest],
              item  |-> Item(coordinate, item, None)]
    ELSE [tag |-> "None", inner |-> inner, item |-> Item(Coordinate(0, 0), <<>>, None)]

\* RowIterMut::next : split_first_mut of what is left of the row
RowIterMut_next(inner) ==
    IF inner.row_item.len > 0
    THEN LET item == <<inner.row_item.row, inner.row_item.start>>
             rest == [inner.row_item EXCEPT !.start = @ + 1, !.len = @ - 1]
             coordinate == Coordinate(AsI32(inner.row), AsI32(inner.col))
         IN  [tag   |-> "Some",
              inner |-> [inner EXCEPT !.row_item = rest, !.col = @ + 1],
              item  |-> Item(coordinate, item, None)]
    ELSE [tag |-> "None", inner |-> inner, item |-> Item(Coordinate(0, 0), <<>>, None)]

\* The closure of Grid::foreach in the model: it pushes what it is called with.
func(pos, e, accumulator) == Append(accumulator, <<pos, e>>)

(***************************************************************************)
(* Iterating as Grid::foreach does: `for row in iter { for item in row }'.  *)
(* it.phase is "outer" when the outer iterator is asked next, "inner" when  *)
(* a row iterator is in hand, "done" when the outer iterator returned None. *)
(* it.out collects, per row iterator, the items it yielded.                 *)
(***************************************************************************)
Start(mode, outer) ==
    /\ Built /\ ~Crashed /\ it.mode = "none"
    /\ it' = [mode |-> mode, phase |-> "outer", outer |-> outer, inner |-> NoInner,
              out |-> <<>>, acc |-> <<>>]
    /\ gret' = Ret(mode, <<>>, NoRet)
    /\ UNCHANGED <<grid, graphVars, restVars>>

\* What the loop does with the answer of an outer iterator's next.
OuterStep(res) ==
    /\ it' = CASE res.tag = "Some" ->
                    [it EXCEPT !.outer = res.outer, !.inner = res.inner,
                               !.phase = "inner", !.out = Append(@, <<>>)]
               [] res.tag = "None"  -> [it EXCEPT !.phase = "done"]
               [] res.tag = "panic" -> [it EXCEPT !.mode = "panic"]
    /\ UNCHANGED <<grid, gret, graphVars, restVars>>

\* What the loop does with the answer of a row iterator's next.
InnerStep(res) ==
    /\ it' = IF res.tag = "Some"
             THEN [it EXCEPT !.inner = res.inner,
                             !.out[Len(it.out)] = Append(@, res.item),
                             !.acc = IF it.mode = "foreach"
                                     THEN func(res.item.coord, res.item.val, @)
                                     ELSE @]
             ELSE [it EXCEPT !.phase = "outer"]
    /\ UNCHANGED <<grid, gret, graphVars, restVars>>

\* grid.iter()
IterBegin == Start("iter", GridIter_new)

\* grid.foreach(func): let mut accumulator = Default::default(); self.iter()
ForeachBegin == Start("foreach", GridIter_new)

GridIterNext ==
    /\ it.mode \in {"iter", "foreach"} /\ it.phase = "outer"
    /\ OuterStep(GridIter_next(grid, it.outer))

RowIterNext ==
    /\ it.mode \in {"iter", "foreach", "slice"} /\ it.phase = "inner"
    /\ InnerStep(RowIter_next(grid, it.inner))

\* GridSlice::new(&grid, r0..r1, c0..c1).iter()
SliceBegin ==
    \E r0 \in 0..MaxRows, r1 \in 0..MaxRows, c0 \in 0..MaxCols, c1 \in 0..MaxCols :
        Start("slice", GridViewIter_new(GridSlice_new(Range(r0, r1), Range(c0, c1))))

GridViewIterNext ==
    /\ it.mode = "slice" /\ it.phase = "outer"
    /\ OuterStep(GridViewIter_next(grid, it.outer))

\* grid.iter_mut()
IterMutBegin == Start("iter_mut", GridIterMut_new)

GridIterMutNext ==
    /\ it.mode = "iter_mut" /\ it.phase = "outer"
    /\ OuterStep(GridIterMut_next(grid, it.outer))

RowIterMutNext ==
    /\ it.mode = "iter_mut" /\ it.phase = "inner"
    /\ InnerStep(RowIterMut_next(it.inner))

\* *cell = val through the k-th reference yielded by the r-th row iterator
IterMutAssignOp(r, k, val) ==
    /\ it.mode = "iter_mut"
    /\ r \in 1..Len(it.out)
    /\ k \in 1..Len(it.out[r])
    /\ grid' = Write(grid, it.out[r][k].ref, val)
    /\ UNCHANGED <<it, gret, graphVars, restVars>>

IterMutAssign ==
    \E r \in 1..MaxRows + 1, k \in 1..MaxCols + 1, val \in Vals : IterMutAssignOp(r, k, val)

Construct ==
    \/ SizedNew
    \/ UnsizedNew
    \/ UnsizedFromBox
    \/ UnsizedNewWithSize

NextIter ==
    \/ Construct
    \/ IterBegin
    \/ ForeachBegin
    \/ GridIterNext
    \/ RowIterNext

SpecIter == Init /\ [][NextIter]_vars

NextSlice ==
    \/ Construct
    \/ SliceBegin
    \/ GridViewIterNext
    \/ RowIterNext

SpecSlice == Init /\ [][NextSlice]_vars

NextIterMut ==
    \/ Construct
    \/ IterMutBegin
    \/ GridIterMutNext
    \/ RowIterMutNext
    \/ IterMutAssign

SpecIterMut == Init /\ [][NextIterMut]_vars

(***************************************************************************)
(* Claims about iteration.                                                  *)
(***************************************************************************)
IsPrefix(a, b) == Len(a) <= Len(b) /\ \A i \in 1..Len(a) : a[i] = b[i]

\* The items of row r for the columns c0..c1-1, in increasing column order,
\* each with its own coordinate, a reference to its own cell and that cell's
\* value.
ExpectedRow(g, r, c0, c1) ==
    [k \in 1..(c1 - c0) |->
        Item(Coordinate(r, c0 + k - 1), <<r, c0 + k - 1>>, g.matrix[r + 1][c0 + k])]

\* The (Coordinate, value) pairs of the rows r.., in row-major order.
RECURSIVE RowMajorFrom(_, _)
RowMajorFrom(g, r) ==
    IF r >= Len(g.matrix) THEN <<>>
    ELSE [k \in 1..Len(g.matrix[r + 1]) |-> <<Coordinate(r, k - 1), g.matrix[r + 1][k]>>]
         \o RowMajorFrom(g, r + 1)

\* The row iterator number k has returned None.
RowFinished(k) == k < Len(it.out) \/ it.phase # "inner"

\* C8: on a grid with R rows and C columns, iter() yields R row iterators in
\* increasing row order, each yielding exactly C items (Coordinate(r, c), &cell)
\* in increasing column order, cell being what get(Coordinate(r, c)) returns;
\* foreach calls func once per cell in that row-major order, starting from
\* the default accumulator, and returns the accumulator.
C8_IterRowMajor ==
    (Built /\ Rectangular(grid) /\ it.mode \in {"iter", "foreach"}) =>
        /\ Len(it.out) <= RowsOf(grid)
        /\ it.phase = "done" => Len(it.out) = RowsOf(grid)
        /\ \A k \in 1..Len(it.out) :
              LET whole == ExpectedRow(grid, k - 1, 0, ColsOf(grid))
              IN  /\ IsPrefix(it.out[k], whole)
                  /\ RowFinished(k) => it.out[k] = whole
                  /\ \A i \in 1..Len(it.out[k]) :
                        grid_get(grid, it.out[k][i].coord) =
                           Some(it.out[k][i].ref, it.out[k][i].val)
        /\ IF it.mode = "foreach"
           THEN /\ IsPrefix(it.acc, RowMajorFrom(grid, 0))
                /\ it.phase = "done" => it.acc = RowMajorFrom(grid, 0)
           ELSE it.acc = <<>>

\* C8 witness: foreach has finished on a 2 x 2 UnsizedGrid with four calls of
\* func, the rows of the grid being different.
C8_Witness ==
    /\ grid.kind = "unsized"
    /\ Rectangular(grid)
    /\ RowsOf(grid) = 2 /\ ColsOf(grid) = 2
    /\ grid.matrix[1] # grid.matrix[2]
    /\ it.mode = "foreach"
    /\ it.phase = "done"
    /\ Len(it.acc) = 4

\* The view lies inside the grid.
ViewInside(g, view) ==
    /\ view.row.start <= view.row.end /\ view.row.end <= RowsOf(g)
    /\ view.col.start <= view.col.end /\ view.col.end <= ColsOf(g)

\* C9: GridSlice::iter() on a view r0..r1 x c0..c1 inside the grid yields one
\* row iterator per row of r0..r1, each yielding one item per column of
\* c0..c1: (Coordinate(r, c), the grid's element at (r, c)).
C9_SliceIter ==
    (/\ Built /\ Rectangular(grid)
     /\ it.mode = "slice"
     /\ ViewInside(grid, it.outer.view)
     /\ it.phase = "done") =>
        LET view == it.outer.view
        IN  /\ Len(it.out) = view.row.end - view.row.start
            /\ \A k \in 1..Len(it.out) :
                  it.out[k] = ExpectedRow(grid, view.row.start + k - 1,
                                          view.col.start, view.col.end)

\* The items a RowIterMut over row r yields: every cell of the row, in
\* increasing column order, each with its own coordinate.
ExpectedMutRow(g, r) ==
    [k \in 1..Len(g.matrix[r + 1]) |-> Item(Coordinate(r, k - 1), <<r, k - 1>>, None)]

\* C10: iter_mut() on SizedGrid and UnsizedGrid yields every cell exactly
\* once in row-major order, each with its own Coordinate(row, col); an
\* assignment through a yielded reference changes exactly the cell at that
\* coordinate and leaves the other cells and the dimensions unchanged.
C10_IterMut ==
    /\ []((Built /\ it.mode = "iter_mut") =>
            /\ Len(it.out) <= Len(grid.matrix)
            /\ it.phase = "done" => Len(it.out) = Len(grid.matrix)
            /\ \A k \in 1..Len(it.out) :
                  /\ IsPrefix(it.out[k], ExpectedMutRow(grid, k - 1))
                  /\ RowFinished(k) => it.out[k] = ExpectedMutRow(grid, k - 1))
    /\ [][\A r \in 1..MaxRows + 1, k \in 1..MaxCols + 1, val \in Vals :
            IterMutAssignOp(r, k, val) =>
               LET c == it.out[r][k].coord
               IN  /\ c.i \in 0..(Len(grid.matrix) - 1)
                   /\ c.j \in 0..(Len(grid.matrix[c.i + 1]) - 1)
                   /\ grid'.matrix = [grid.matrix EXCEPT ![c.i + 1][c.j + 1] = val]
                   /\ grid'.kind = grid.kind
                   /\ num_rows(grid') = num_rows(grid)
                   /\ num_cols(grid') = num_cols(grid)]_vars

\* C10 witness: iter_mut has finished on a 2 x 2 grid whose last cell was
\* assigned a value different from all other cells.
C10_Witness ==
    /\ Built
    /\ Len(grid.matrix) = 2
    /\ Len(grid.matrix[1]) = 2 /\ Len(grid.matrix[2]) = 2
    /\ it.mode = "iter_mut"
    /\ it.phase = "done"
    /\ Len(it.out[2]) = 2
    /\ grid.matrix = << <<0, 0>>, <<0, 1>> >>

(***************************************************************************)
(* Grid::last_coordinate (src/utils/grid/mod.rs).                           *)
(***************************************************************************)
\* `(n - 1) as i32' for a usize n: the difference when n >= 1.  For n = 0 the
\* subtraction overflows: a build with overflow checks panics, a build
\* without them wraps to usize::MAX, which `as i32' turns into -1.  The
\* result is the set of outcomes the builds can produce.
SubOneAsI32(n) ==
    IF n >= 1
    THEN {[overflow |-> FALSE, val |-> AsI32(n - 1)]}
    ELSE {[overflow |-> TRUE, val |-> 0], [overflow |-> FALSE, val |-> -1]}

\* Grid::last_coordinate :
\* Coordinate::new((self.num_rows() - 1) as i32, (self.num_cols() - 1) as i32)
\* (num_cols of an UnsizedGrid indexes row 0)
last_coordinate(g) ==
    LET is == SubOneAsI32(num_rows(g))
        js == IF g.kind = "unsized" /\ Len(g.matrix) = 0
              THEN {[overflow |-> TRUE, val |-> 0]}
              ELSE SubOneAsI32(num_cols(g))
    IN  {IF i.overflow \/ j.overflow
         THEN Panic
         ELSE Some(<<i.val, j.val>>, None) : i \in is, j \in js}

\* grid.last_coordinate(); the Coordinate returned is kept as <<i, j>>.
LastCoordinate ==
    /\ Built /\ ~Crashed
    /\ \E res \in last_coordinate(grid) :
          gret' = Ret("last_coordinate", <<>>, res)
    /\ UNCHANGED <<grid, it, graphVars, restVars>>

NextLast ==
    \/ Construct
    \/ LastCoordinate
    \/ IterBegin
    \/ GridIterNext
    \/ RowIterNext

SpecLast == Init /\ [][NextLast]_vars

\* The items yielded by all the row iterators so far, in the order yielded.
RECURSIVE Flatten(_)
Flatten(ss) == IF ss = <<>> THEN <<>> ELSE Head(ss) \o Flatten(Tail(ss))

\* C11: for every SizedGrid and UnsizedGrid value, last_coordinate() returns
\* Coordinate(num_rows() - 1, num_cols() - 1), is_valid_coordinate of it is
\* true, and it is the coordinate of the final item yielded by iter().
C11_LastCoordinate ==
    (Built /\ gret.op = "last_coordinate") =>
        /\ gret.res.tag = "Some"
        /\ gret.res.ref = <<num_rows(grid) - 1, num_cols(grid) - 1>>
        /\ is_valid_coordinate(grid, Coordinate(gret.res.ref[1], gret.res.ref[2]))
        /\ (it.mode = "iter" /\ it.phase = "done") =>
              LET items == Flatten(it.out)
              IN  /\ items # <<>>
                  /\ items[Len(items)].coord =
                        Coordinate(gret.res.ref[1], gret.res.ref[2])

\* The same statement for the grids that have a last element: at least one
\* row, and every row as long as the first, which is not empty.
C11_LastCoordinateNonEmpty ==
    (Built /\ gret.op = "last_coordinate"
           /\ Rectangular(grid) /\ RowsOf(grid) >= 1 /\ ColsOf(grid) >= 1) =>
        /\ gret.res.tag = "Some"
        /\ gret.res.ref = <<num_rows(grid) - 1, num_cols(grid) - 1>>
        /\ is_valid_coordinate(grid, Coordinate(gret.res.ref[1], gret.res.ref[2]))
        /\ (it.mode = "iter" /\ it.phase = "done") =>
              LET items == Flatten(it.out)
              IN  /\ items # <<>>
                  /\ items[Len(items)].coord =
                        Coordinate(gret.res.ref[1], gret.res.ref[2])

\* last_coordinate() was called on a SizedGrid<_, 0, 0>.
C11_WitnessEmptySized ==
    /\ grid.kind = "sized" /\ grid.ROW = 0 /\ grid.COL = 0
    /\ gret.op = "last_coordinate"

(***************************************************************************)
(* Claims about the constructors of UnsizedGrid.                            *)
(***************************************************************************)

\* C12: UnsizedGrid::new and UnsizedGrid::from_box panic when given zero rows
\* or a first row with zero columns, so every constructed UnsizedGrid has
\* num_rows() >= 1 and num_cols() >= 1; new_with_size(rows, cols, d) with
\* rows >= 1 and cols >= 1 yields a grid of exactly rows x cols cells, every
\* one equal to d.
C12_UnsizedConstructors ==
    /\ gret.op \in {"UnsizedGrid::new", "UnsizedGrid::from_box"} =>
          IF Len(gret.arg) = 0 \/ Len(gret.arg[1]) = 0
          THEN grid.kind = "panicked"
          ELSE grid.kind = "unsized" /\ grid.matrix = gret.arg
    /\ grid.kind = "unsized" => num_rows(grid) >= 1 /\ num_cols(grid) >= 1
    /\ (gret.op = "UnsizedGrid::new_with_size"
            /\ gret.arg[1] >= 1 /\ gret.arg[2] >= 1) =>
          /\ grid.kind = "unsized"
          /\ num_rows(grid) = gret.arg[1]
          /\ num_cols(grid) = gret.arg[2]
          /\ Len(grid.matrix) = gret.arg[1]
          /\ \A r \in 1..Len(grid.matrix) :
                /\ Len(grid.matrix[r]) = gret.arg[2]
                /\ \A c \in 1..Len(grid.matrix[r]) : grid.matrix[r][c] = gret.arg[3]

\* C12 witness: new_with_size(MaxRows, MaxCols, 1) has built its grid.
C12_Witness ==
    /\ gret.op = "UnsizedGrid::new_with_size"
    /\ gret.arg = <<MaxRows, MaxCols, 1>>
    /\ grid.kind = "unsized"

\* UnsizedGrid::new panicked on a first row without columns, followed by a
\* row with one.
C12_WitnessPanic ==
    /\ gret.op = "UnsizedGrid::new"
    /\ Len(gret.arg) = 2 /\ Len(gret.arg[1]) = 0 /\ Len(gret.arg[2]) = 1
    /\ grid.kind = "panicked"

(***************************************************************************)
(* Coordinate and the directions (src/utils/coordinate_system.rs).          *)
(* walk is [tag, start, c, path, wrapped]: the Coordinate `start' made by   *)
(* Coordinate::new, the directions added to it one after the other (path),  *)
(* and the Coordinate c these additions produced.  tag is "panic" when an   *)
(* addition overflowed in a build with overflow checks; wrapped is TRUE     *)
(* when one overflowed in a build without them.                             *)
(***************************************************************************)
MaxPath == 2

\* i32::MIN
MinI32 == -I32Max - 1

\* The i32 values of the coordinates tried: around zero and at both ends.
CoordVals == {MinI32, -1, 0, 1, I32Max}

\* a + b on i32 without overflow checks (two's complement), for |b| <= 2
WrappingAddI32(a, b) ==
    IF b > 0 /\ a > I32Max - b THEN MinI32 + (b - (I32Max - a) - 1)
    ELSE IF b < 0 /\ a < MinI32 - b THEN I32Max - ((MinI32 - a) - b - 1)
    ELSE a + b

OverflowsI32(a, b) == (b > 0 /\ a > I32Max - b) \/ (b < 0 /\ a < MinI32 - b)

Directions == {"North", "East", "South", "West", "Current"}

\* Mutant of Direction_offset: East and West are exchanged.
Direction_offset_east_west(d) ==
    CASE d = "North"   -> <<-1, 0>>
      [] d = "East"    -> <<0, -1>>
      [] d = "South"   -> <<1, 0>>
      [] d = "West"    -> <<0, 1>>
      [] d = "Current" -> <<0, 0>>

\* Direction::offset
Direction_offset(d) ==
    CASE d = "North"   -> <<-1, 0>>
      [] d = "East"    -> <<0, 1>>
      [] d = "South"   -> <<1, 0>>
      [] d = "West"    -> <<0, -1>>
      [] d = "Current" -> <<0, 0>>

FullDirections ==
    {"North", "NorthEast", "East", "SouthEast", "South", "SouthWest", "West",
     "NorthWest", "Current"}

\* FullDirection::offset
FullDirection_offset(d) ==
    CASE d = "North"     -> Direction_offset("North")
      [] d = "NorthEast" -> <<-1, 1>>
      [] d = "East"      -> Direction_offset("East")
      [] d = "SouthEast" -> <<1, 1>>
      [] d = "South"     -> Direction_offset("South")
      [] d = "SouthWest" -> <<1, -1>>
      [] d = "West"      -> Direction_offset("West")
      [] d = "NorthWest" -> <<-1, -1>>
      [] d = "Current"   -> Direction_offset("Current")

\* Self { i: self.i + dx, j: self.j + dy } : the outcomes the builds can
\* produce.  Without overflow there is one; with overflow there are the panic
\* of a build with overflow checks and the wrapped sum of a build without.
Coordinate_add_offset(c, off) ==
    IF OverflowsI32(c.i, off[1]) \/ OverflowsI32(c.j, off[2])
    THEN {[tag |-> "panic", c |-> c, wrapped |-> FALSE],
          [tag |-> "ok", wrapped |-> TRUE,
           c |-> Coordinate(WrappingAddI32(c.i, off[1]), WrappingAddI32(c.j, off[2]))]}
    ELSE {[tag |-> "ok", wrapped |-> FALSE,
           c |-> Coordinate(c.i + off[1], c.j + off[2])]}

\* impl Add<direction::Direction> for Coordinate
Coordinate_add_Direction(c, direction) ==
    Coordinate_add_offset(c, Direction_offset(direction))

\* impl Add<direction::FullDirection> for Coordinate
Coordinate_add_FullDirection(c, direction) ==
    Coordinate_add_offset(c, FullDirection_offset(direction))

notWalk == <<graphVars, gridVars, parsed, machine, office, maze, warehouse>>

\* let c = Coordinate::new(x, y)
CoordinateNew ==
    \E x \in CoordVals, y \in CoordVals :
        /\ walk.tag = "none"
        /\ walk' = [tag |-> "ok", start |-> Coordinate(x, y), c |-> Coordinate(x, y),
                    path |-> <<>>, wrapped |-> FALSE]
        /\ UNCHANGED notWalk

\* What an addition leaves behind.
Walked(step, res) ==
    /\ walk.tag = "ok" /\ Len(walk.path) < MaxPath
    /\ walk' = [walk EXCEPT !.tag = res.tag, !.c = res.c,
                            !.wrapped = @ \/ res.wrapped,
                            !.path = Append(@, step)]
    /\ UNCHANGED notWalk

\* c = c + direction, for a Direction
AddDirection ==
    /\ walk.tag = "ok"
    /\ \E direction \in Directions :
        \E res \in Coordinate_add_Direction(walk.c, direction) :
            Walked(<<"Direction", direction>>, res)

\* c = c + direction, for a FullDirection
AddFullDirection ==
    /\ walk.tag = "ok"
    /\ \E direction \in FullDirections :
        \E res \in Coordinate_add_FullDirection(walk.c, direction) :
            Walked(<<"FullDirection", direction>>, res)

NextCoord ==
    \/ CoordinateNew
    \/ AddDirection
    \/ AddFullDirection

SpecCoord == Init /\ [][NextCoord]_vars

(***************************************************************************)
(* Claims about the direction arithmetic.                                   *)
(***************************************************************************)
\* The offsets as the documentation gives them: the four cardinals and
\* Current by a table, a diagonal as the sum of its two cardinals.
Cardinal(name) ==
    CASE name = "North"   -> <<-1, 0>>
      [] name = "East"    -> <<0, 1>>
      [] name = "South"   -> <<1, 0>>
      [] name = "West"    -> <<0, -1>>
      [] name = "Current" -> <<0, 0>>

Plus(p, q) == <<p[1] + q[1], p[2] + q[2]>>

Documented(name) ==
    CASE name = "NorthEast" -> Plus(Cardinal("North"), Cardinal("East"))
      [] name = "SouthEast" -> Plus(Cardinal("South"), Cardinal("East"))
      [] name = "SouthWest" -> Plus(Cardinal("South"), Cardinal("West"))
      [] name = "NorthWest" -> Plus(Cardinal("North"), Cardinal("West"))
      [] OTHER -> Cardinal(name)

\* The sum of the documented offsets of the steps of a path.
RECURSIVE PathOffset(_)
PathOffset(path) ==
    IF path = <<>> THEN <<0, 0>>
    ELSE Plus(Documented(Head(path)[2]), PathOffset(Tail(path)))

\* C13: Coordinate + Direction adds a fixed offset to (i, j): North (-1,0),
\* East (0,1), South (1,0), West (0,-1), Current (0,0); hence, without i32
\* overflow, c + North + South == c, c + East + West == c and
\* c + Current == c; every cardinal FullDirection has the offset of the
\* Direction of the same name, and every diagonal FullDirection offset is the
\* component-wise sum of its two adjacent cardinals.
C13_DirectionOffsets ==
    /\ \A d \in Directions : Direction_offset(d) = Cardinal(d)
    /\ \A d \in Directions : FullDirection_offset(d) = Direction_offset(d)
    /\ FullDirection_offset("NorthEast") =
          Plus(Direction_offset("North"), Direction_offset("East"))
    /\ FullDirection_offset("SouthEast") =
          Plus(Direction_offset("South"), Direction_offset("East"))
    /\ FullDirection_offset("SouthWest") =
          Plus(Direction_offset("South"), Direction_offset("West"))
    /\ FullDirection_offset("NorthWest") =
          Plus(Direction_offset("North"), Direction_offset("West"))
    /\ (walk.tag = "ok" /\ ~walk.wrapped) =>
          /\ walk.c = Coordinate(walk.start.i + PathOffset(walk.path)[1],
                                 walk.start.j + PathOffset(walk.path)[2])
          /\ walk.path \in {<<<<"Direction", "North">>, <<"Direction", "South">>>>,
                            <<<<"Direction", "East">>, <<"Direction", "West">>>>,
                            <<<<"Direction", "Current">>>>}
                => walk.c = walk.start

\* C13 witness: c + North + South has been computed without overflow from a
\* coordinate whose row is i32::MAX, and is c again.
C13_Witness ==
    /\ walk.tag = "ok" /\ ~walk.wrapped
    /\ walk.start.i = I32Max
    /\ walk.path = <<<<"Direction", "North">>, <<"Direction", "South">>>>
    /\ walk.c = walk.start

\* An addition overflowed: c + South from a row of i32::MAX.
C13_WitnessOverflow ==
    /\ walk.tag = "panic"
    /\ walk.start.i = I32Max
    /\ walk.path = <<<<"Direction", "South">>>>

(***************************************************************************)
(* Coordinate::from_str (src/utils/coordinate_system.rs).  A &str is a      *)
(* sequence of one-character strings.  parsed is [tag, line, res]: the line *)
(* given to from_str and the Result it returned.                            *)
(***************************************************************************)
MaxLine == 4

\* The characters of the short lines tried: digits, signs, the separator and
\* a space.
LineChars == {"0", "1", "-", "+", ",", " "}

DigitChars == {"0", "1", "2", "3", "4", "5", "6", "7", "8", "9"}

\* char::to_digit(10) of a decimal digit
to_digit(ch) ==
    CASE ch = "0" -> 0 [] ch = "1" -> 1 [] ch = "2" -> 2 [] ch = "3" -> 3
      [] ch = "4" -> 4 [] ch = "5" -> 5 [] ch = "6" -> 6 [] ch = "7" -> 7
      [] ch = "8" -> 8 [] ch = "9" -> 9

\* Longer lines: the examples of the documentation, and numbers at and just
\* beyond the ends of i32.
LongLines ==
    {<<"1", ",", "2", ",", "3">>,
     <<"2", "1", "4", "7", "4", "8", "3", "6", "4", "7", ",",
       "-", "2", "1", "4", "7", "4", "8", "3", "6", "4", "8">>,
     <<"2", "1", "4", "7", "4", "8", "3", "6", "4", "8", ",", "0">>,
     <<"0", ",", "-", "2", "1", "4", "7", "4", "8", "3", "6", "4", "9">>,
     <<"0", "0", "0", "0", "0", "0", "0", "0", "0", "0", "1", "2", ",", "+", "3">>,
     <<"9", "9", "9", "9", "9", "9", "9", "9", "9", "9", "9", ",", "1">>}

Lines == SeqsUpTo(LineChars, MaxLine) \cup LongLines

Ok(v) == [tag |-> "Ok", val |-> v, err |-> ""]

Err(e) == [tag |-> "Err", val |-> 0, err |-> e]

\* The digit loop of str::parse::<i32>: result = result * 10 (+ or -) digit
\* with checked arithmetic, an error on a character that is no digit.
RECURSIVE parse_digits(_, _, _)
parse_digits(digits, result, is_positive) ==
    IF digits = <<>> THEN Ok(result)
    ELSE IF Head(digits) \notin DigitChars THEN Err("InvalidDigit")
    ELSE LET x == to_digit(Head(digits))
         IN  IF is_positive
             THEN IF result > I32Max \div 10 \/ result * 10 > I32Max - x
                  THEN Err("PosOverflow")
                  ELSE parse_digits(Tail(digits), result * 10 + x, is_positive)
             ELSE IF result < -(I32Max \div 10) \/ result * 10 < MinI32 + x
                  THEN Err("NegOverflow")
                  ELSE parse_digits(Tail(digits), result * 10 - x, is_positive)

\* Mutant of parse_i32: spaces around the number are trimmed first.
RECURSIVE parse_i32_trimmed(_)
parse_i32_trimmed(src) ==
    IF src = <<>> THEN Err("Empty")
    ELSE IF Head(src) = " " THEN parse_i32_trimmed(Tail(src))
    ELSE IF src[Len(src)] = " " THEN parse_i32_trimmed(SubSeq(src, 1, Len(src) - 1))
    ELSE IF src \in {<<"+">>, <<"-">>} THEN Err("InvalidDigit")
    ELSE IF Head(src) = "+" THEN parse_digits(Tail(src), 0, TRUE)
    ELSE IF Head(src) = "-" THEN parse_digits(Tail(src), 0, FALSE)
    ELSE parse_digits(src, 0, TRUE)

\* str::parse::<i32> as from_str calls it (i.parse(), j.parse())
parse_i32(src) ==
    IF src = <<>> THEN Err("Empty")
    ELSE IF src \in {<<"+">>, <<"-">>} THEN Err("InvalidDigit")
    ELSE IF Head(src) = "+" THEN parse_digits(Tail(src), 0, TRUE)
    ELSE IF Head(src) = "-" THEN parse_digits(Tail(src), 0, FALSE)
    ELSE parse_digits(src, 0, TRUE)

\* line.split_once(',') : None (modelled by <<>>), or Some((before, after))
\* around the first comma
split_once(line) ==
    IF \E k \in 1..Len(line) : line[k] = ","
    THEN LET k == CHOOSE k \in 1..Len(line) :
                     line[k] = "," /\ \A m \in 1..(k - 1) : line[m] # ","
         IN  <<SubSeq(line, 1, k - 1), SubSeq(line, k + 1, Len(line))>>
    ELSE <<>>

\* Coordinate::from_str
from_str(line) ==
    LET split == split_once(line)
    IN  IF split = <<>> THEN Err("Invalid coordinate. Format is 'x,y'")
        ELSE LET x == parse_i32(split[1])
             IN  IF x.tag = "Err" THEN Err("Cannot parse i axis")
                 ELSE LET y == parse_i32(split[2])
                      IN  IF y.tag = "Err" THEN Err("Cannot parse j axis")
                          ELSE Ok(Coordinate(x.val, y.val))

notParsed == <<graphVars, gridVars, walk, machine, office, maze, warehouse>>

\* line.parse::<Coordinate>() / Coordinate::from_str(line)
FromStrOp(line) ==
    /\ parsed.tag = "none"
    /\ parsed' = [tag |-> "called", line |-> line, res |-> from_str(line)]
    /\ UNCHANGED notParsed

FromStr == \E line \in Lines : FromStrOp(line)

NextFromStr == FromStr

SpecFromStr == Init /\ [][NextFromStr]_vars

(***************************************************************************)
(* Claims about Coordinate::from_str.                                       *)
(***************************************************************************)
\* The text without its sign, and without the zeros it starts with.
Unsigned(t) == IF t # <<>> /\ Head(t) \in {"+", "-"} THEN Tail(t) ELSE t

RECURSIVE Significant(_)
Significant(ds) ==
    IF ds # <<>> /\ Head(ds) = "0" THEN Significant(Tail(ds)) ELSE ds

\* ds is at most limit, for two digit strings of the same length.
RECURSIVE AtMost(_, _)
AtMost(ds, limit) ==
    \/ ds = <<>>
    \/ to_digit(Head(ds)) < to_digit(Head(limit))
    \/ Head(ds) = Head(limit) /\ AtMost(Tail(ds), Tail(limit))

I32MaxDigits == <<"2", "1", "4", "7", "4", "8", "3", "6", "4", "7">>

I32MinDigits == <<"2", "1", "4", "7", "4", "8", "3", "6", "4", "8">>

\* t is the decimal text of an i32: an optional sign, then one digit or more
\* and nothing else, the number written being within i32::MIN..i32::MAX.
IsI32Text(t) ==
    LET ds == Unsigned(t)
        sig == Significant(ds)
    IN  /\ ds # <<>>
        /\ \A k \in 1..Len(ds) : ds[k] \in DigitChars
        /\ \/ Len(sig) < 10
           \/ Len(sig) = 10 /\ AtMost(sig, IF Head(t) = "-" THEN I32MinDigits
                                                         ELSE I32MaxDigits)

\* The number a text with IsI32Text writes: minus the sum of digit * 10^place
\* for a text with '-', plus that sum otherwise.
RECURSIVE Pow10(_)
Pow10(n) == IF n = 0 THEN 1 ELSE 10 * Pow10(n - 1)

RECURSIVE PlaceSum(_, _)
PlaceSum(sig, sign) ==
    IF sig = <<>> THEN 0
    ELSE sign * to_digit(Head(sig)) * Pow10(Len(sig) - 1) + PlaceSum(Tail(sig), sign)

Written(t) ==
    PlaceSum(Significant(Unsigned(t)), IF Head(t) = "-" THEN -1 ELSE 1)

\* C14: Coordinate::from_str(s) never panics: it returns Err(String) when s
\* contains no comma, or when the text before the first comma or the text
\* after it cannot be parsed as an i32 (so "1,2,3" and "1, 2" are errors), and
\* otherwise returns Ok(Coordinate { i: x, j: y }) for s = "x,y".
C14_FromStr ==
    parsed.tag = "called" =>
        LET s == parsed.line
            commas == {k \in 1..Len(s) : s[k] = ","}
        IN  /\ parsed.res.tag \in {"Ok", "Err"}
            /\ commas = {} => parsed.res.tag = "Err"
            /\ commas # {} =>
                  LET first == CHOOSE k \in commas : \A m \in commas : k <= m
                      x == SubSeq(s, 1, first - 1)
                      y == SubSeq(s, first + 1, Len(s))
                  IN  IF IsI32Text(x) /\ IsI32Text(y)
                      THEN parsed.res = Ok(Coordinate(Written(x), Written(y)))
                      ELSE parsed.res.tag = "Err"
            /\ s \in {<<"1", ",", "2", ",", "3">>, <<"1", ",", " ", "2">>}
                  => parsed.res.tag = "Err"

\* C14 witness: from_str("-1,1") returned Ok(Coordinate { i: -1, j: 1 }).
C14_Witness ==
    /\ parsed.tag = "called"
    /\ parsed.line = <<"-", "1", ",", "1">>
    /\ parsed.res = Ok(Coordinate(-1, 1))

\* from_str("1,2,3") returned Err.
C14_WitnessErr ==
    /\ parsed.tag = "called"
    /\ parsed.line = <<"1", ",", "2", ",", "3">>
    /\ parsed.res.tag = "Err"

\* from_str("2147483647,-2147483648") returned the two ends of i32.
C14_WitnessEnds ==
    /\ parsed.tag = "called"
    /\ parsed.res = Ok(Coordinate(I32Max, MinI32))

(***************************************************************************)
(* Day 13 (src/day13.rs): the claw machines.  machine is                    *)
(* [tag, m, la, dp]: the Machine m = [button_a, button_b, prize] (pairs),   *)
(* what minimum_tickets_linear_algebra returned for it (la) and what        *)
(* minimum_tickets_dp((0, 0), empty cache, (0, 0)) returned (dp).           *)
(***************************************************************************)
MaxButton == 3
MaxPrize == 4

\* Machine::BUTTON_A_MULTIPLIER
BUTTON_A_MULTIPLIER == 3

\* Machine::BUTTON_B_MULTIPLIER
BUTTON_B_MULTIPLIER == 1

\* i64::MAX, which minimum_tickets_dp returns for "no way to the prize".  The
\* model writes the largest integer it has for it; the costs of the model's
\* machines stay far below.
I64Max == I32Max

\* The machines tried: buttons that move the claw by 1..MaxButton along each
\* axis (the input format is "X+.., Y+.."), prizes at 0..MaxPrize.
Machines ==
    [button_a : (1..MaxButton) \X (1..MaxButton),
     button_b : (1..MaxButton) \X (1..MaxButton),
     prize    : (0..MaxPrize) \X (0..MaxPrize)]

SomeI64(v) == [tag |-> "Some", val |-> v]

NoneI64 == [tag |-> "None", val |-> 0]

PanicI64 == [tag |-> "panic", val |-> 0]

\* x / y on i64 for y # 0: the quotient rounded towards zero
DivI64(x, y) ==
    IF (x >= 0) = (y > 0)
    THEN (IF x >= 0 THEN x ELSE -x) \div (IF y > 0 THEN y ELSE -y)
    ELSE -((IF x >= 0 THEN x ELSE -x) \div (IF y > 0 THEN y ELSE -y))

\* Machine::determinant
determinant(a, b) == (a[1] * b[2]) - (a[2] * b[1])

\* Machine::minimum_tickets_linear_algebra ; x / det and y / det panic with
\* "attempt to divide by zero" when det is 0
minimum_tickets_linear_algebra(self) ==
    LET det == determinant(self.button_a, self.button_b)
        x == determinant(self.prize, self.button_b)
        y == determinant(self.button_a, self.prize)
    IN  IF det = 0 THEN PanicI64
        ELSE LET dx == DivI64(x, det)
                 dy == DivI64(y, det)
                 a == self.button_a[1] * dx + self.button_b[1] * dy
                 b == self.button_a[2] * dx + self.button_b[2] * dy
             IN  IF <<a, b>> = self.prize
                 THEN SomeI64(dx * BUTTON_A_MULTIPLIER + dy * BUTTON_B_MULTIPLIER)
                 ELSE NoneI64

\* Machine::add
add(a, b) == <<a[1] + b[1], a[2] + b[2]>>

\* Machine::is_more_than_prize
is_more_than_prize(self, curr_prize) ==
    curr_prize[1] > self.prize[1] \/ curr_prize[2] > self.prize[2]

\* HashMap::insert on the cache, a function from the keys it holds
cache_insert(cache, key, value) ==
    [k \in DOMAIN cache \cup {key} |-> IF k = key THEN value ELSE cache[k]]

\* Machine::minimum_tickets_dp : the value returned and the cache as the call
\* leaves it
RECURSIVE minimum_tickets_dp(_, _, _, _, _)
minimum_tickets_dp(self, curr_prize, cache, a, b) ==
    IF curr_prize \in DOMAIN cache
    THEN [result |-> cache[curr_prize], cache |-> cache]
    ELSE IF is_more_than_prize(self, curr_prize)
    THEN [result |-> I64Max, cache |-> cache]
    ELSE IF self.prize = curr_prize
    THEN [result |-> (a * BUTTON_A_MULTIPLIER) + (b * BUTTON_B_MULTIPLIER),
          cache |-> cache]
    ELSE LET pushA == minimum_tickets_dp(self, add(curr_prize, self.button_a),
                                         cache, a + 1, b)
             pushB == IF pushA.result = I64Max
                      THEN minimum_tickets_dp(self, add(curr_prize, self.button_b),
                                              pushA.cache, a, b + 1)
                      ELSE pushA
         IN  [result |-> pushB.result,
              cache  |-> cache_insert(pushB.cache, curr_prize, pushB.result)]

notMachine == <<graphVars, gridVars, walk, parsed, office, maze, warehouse>>

\* One Machine of ClawMachines::from
MachineNew ==
    \E m \in Machines :
        /\ machine.tag = "none"
        /\ machine' = [tag |-> "built", m |-> m, la |-> <<>>, dp |-> <<>>]
        /\ UNCHANGED notMachine

\* machine.minimum_tickets_linear_algebra()
LinearAlgebra ==
    /\ machine.tag = "built" /\ machine.la = <<>>
    /\ machine' = [machine EXCEPT !.la = <<minimum_tickets_linear_algebra(machine.m)>>]
    /\ UNCHANGED notMachine

\* cache.clear(); machine.minimum_tickets_dp((0, 0), &mut cache, (0, 0))
Dp ==
    /\ machine.tag = "built" /\ machine.dp = <<>>
    /\ machine' = [machine EXCEPT !.dp =
           <<minimum_tickets_dp(machine.m, <<0, 0>>, <<>>, 0, 0).result>>]
    /\ UNCHANGED notMachine

NextMachine ==
    \/ MachineNew
    \/ LinearAlgebra
    \/ Dp

SpecMachine == Init /\ [][NextMachine]_vars

(***************************************************************************)
(* Claims about day 13.                                                     *)
(***************************************************************************)
\* The press counts (a, b) that reach the prize of m.  With buttons that move
\* by at least 1 along each axis no count exceeds the prize's coordinates.
Presses(m) ==
    {p \in (0..MaxPrize) \X (0..MaxPrize) :
        /\ p[1] * m.button_a[1] + p[2] * m.button_b[1] = m.prize[1]
        /\ p[1] * m.button_a[2] + p[2] * m.button_b[2] = m.prize[2]}

Tickets(p) == 3 * p[1] + 1 * p[2]

MinTickets(m) ==
    CHOOSE c \in {Tickets(p) : p \in Presses(m)} :
        \A p \in Presses(m) : c <= Tickets(p)

\* C15: minimum_tickets_linear_algebra returns, for every machine, Some(c)
\* exactly when there are press counts a >= 0 and b >= 0 with
\* a * button_a + b * button_b == prize, c being the minimum of 3 * a + b over
\* such pairs, and returns None (without panicking) when there are none.
C15_LinearAlgebra ==
    (machine.tag = "built" /\ machine.la # <<>>) =>
        IF Presses(machine.m) # {}
        THEN machine.la[1] = SomeI64(MinTickets(machine.m))
        ELSE machine.la[1] = NoneI64

\* The same statement for the machines whose buttons are not collinear
\* (determinant not 0) and whose equations have no solution with a negative
\* press count.
C15_LinearAlgebraIndependent ==
    (/\ machine.tag = "built" /\ machine.la # <<>>
     /\ determinant(machine.m.button_a, machine.m.button_b) # 0
     /\ ~\E a \in (-2 * MaxButton * MaxPrize)..(2 * MaxButton * MaxPrize),
            b \in (-2 * MaxButton * MaxPrize)..(2 * MaxButton * MaxPrize) :
            /\ a < 0 \/ b < 0
            /\ a * machine.m.button_a[1] + b * machine.m.button_b[1] = machine.m.prize[1]
            /\ a * machine.m.button_a[2] + b * machine.m.button_b[2] = machine.m.prize[2]) =>
        IF Presses(machine.m) # {}
        THEN machine.la[1] = SomeI64(MinTickets(machine.m))
        ELSE machine.la[1] = NoneI64

\* The call divided by zero on a machine whose prize can be reached.
C15_WitnessPanic ==
    /\ machine.tag = "built" /\ machine.la = <<PanicI64>>
    /\ Presses(machine.m) # {}

\* The call returned Some for a prize that no press counts reach.
C15_WitnessNegative ==
    /\ machine.tag = "built" /\ machine.la # <<>>
    /\ machine.la[1].tag = "Some"
    /\ Presses(machine.m) = {}

\* C16: minimum_tickets_dp((0,0), empty cache, (0,0)) returns the minimum of
\* 3 * a + b over all press counts a, b >= 0 with
\* a * button_a + b * button_b == prize, and i64::MAX when no such pair
\* exists, for every machine with positive button offsets (including machines
\* where several (a, b) pairs reach the prize).
C16_Dp ==
    (machine.tag = "built" /\ machine.dp # <<>>) =>
        IF Presses(machine.m) # {}
        THEN machine.dp[1] = MinTickets(machine.m)
        ELSE machine.dp[1] = I64Max

\* The same statement for the machines where at most one pair of press
\* counts reaches the prize.
C16_DpSingle ==
    (machine.tag = "built" /\ machine.dp # <<>>
        /\ Cardinality(Presses(machine.m)) <= 1) =>
        IF Presses(machine.m) # {}
        THEN machine.dp[1] = MinTickets(machine.m)
        ELSE machine.dp[1] = I64Max

\* The call returned on a machine with several ways to the prize.
C16_WitnessSeveral ==
    /\ machine.tag = "built" /\ machine.dp # <<>>
    /\ Cardinality(Presses(machine.m)) >= 2

(***************************************************************************)
(* Day 6 (src/day6.rs): the guard in the office.  office is                 *)
(* [tag, input, map, guard_position, sim]: the lines the plan was read      *)
(* from, OfficePlan::map (an UnsizedGrid<char>, a char being a string of    *)
(* length one), OfficePlan::guard_position, and the locals of the call of   *)
(* simulate in progress or finished: sim = [status, guard, direction,       *)
(* cycle_checker, stood, steps], where status is "running", "true" or       *)
(* "false" (the value returned) or "panic", direction is the number of      *)
(* direction.next() calls made on the cycling iterator modulo 4, and stood  *)
(* and steps are history: the cells the guard has stood on and the number   *)
(* of iterations of the loop made.                                          *)
(***************************************************************************)
MaxOfficeRows == 3
MaxOfficeCols == 3
MaxObstacles == 4

\* The cells (row, column), 1-based, of an r x c plan.
PlanCells(r, c) == (1..r) \X (1..c)

\* The lines of a rectangular plan: the guard '^' at g, '#' at the cells of
\* obstacles, '.' elsewhere.
PlanLines(r, c, g, obstacles) ==
    [i \in 1..r |-> [j \in 1..c |->
        IF <<i, j>> = g THEN "^" ELSE IF <<i, j>> \in obstacles THEN "#" ELSE "."]]

\* The subsets of S with at most n elements.
RECURSIVE SubsetsUpTo(_, _)
SubsetsUpTo(S, n) ==
    IF n = 0 THEN {{}}
    ELSE LET smaller == SubsetsUpTo(S, n - 1)
         IN  smaller \cup {o \cup {x} : o \in smaller, x \in S}

\* The rectangular plans with the guard at g.
PlansWithGuardAt(r, c, g) ==
    {PlanLines(r, c, g, obstacles) :
        obstacles \in SubsetsUpTo(PlanCells(r, c) \ {g}, MaxObstacles)}

\* The rectangular plans of up to rows x cols cells.
RectangularPlans(rows, cols) ==
    UNION {PlansWithGuardAt(x[1], x[2], <<x[3], x[4]>>) :
             x \in {y \in (1..rows) \X (1..cols) \X (1..rows) \X (1..cols) :
                        y[3] <= y[1] /\ y[4] <= y[2]}}

\* The same lines with the last one cut short to k characters.
CutLastLine(lines, k) ==
    [lines EXCEPT ![Len(lines)] = SubSeq(@, 1, k)]

\* The input files tried: rectangular plans with one guard, and such plans
\* with the last line cut shorter than the others (which may cut the guard
\* off).
Plans(rows, cols) ==
    RectangularPlans(rows, cols) \cup
    UNION {{CutLastLine(lines, k) : k \in 0..(Len(lines[1]) - 1)} :
             lines \in {l \in RectangularPlans(rows, cols) : Len(l) >= 2}}

\* row.iter().position(|&c| c == '^') : the 0-based index of the first '^'
\* of the row, or None
position_of_guard(row) ==
    IF \E j \in 1..Len(row) : row[j] = "^"
    THEN (CHOOSE j \in 1..Len(row) : row[j] = "^" /\ \A m \in 1..(j - 1) : row[m] # "^") - 1
    ELSE None

\* OfficePlan::from : the guard is the first '^' of the last row that has
\* one; guard.expect("No guard found") panics without any; the grid is built
\* from the lines as they are.
OfficePlan_from(value) ==
    LET with_guard == {i \in 1..Len(value) : position_of_guard(value[i]) # None}
        map == UnsizedGrid_new(value)
    IN  IF with_guard = {} \/ map.kind = "panicked"
        THEN [tag |-> "panic"]
        ELSE LET i == CHOOSE i \in with_guard : \A m \in with_guard : m <= i
             IN  [tag |-> "built", input |-> value, map |-> map,
                  guard_position |-> Coordinate(AsI32(i - 1),
                                                AsI32(position_of_guard(value[i]))),
                  sim |-> [status |-> "none"]]

\* Direction::direction_list
direction_list == <<"North", "East", "South", "West">>

\* *self.map.get_mut(&guard).unwrap() = 'X' : the map afterwards, of kind
\* "panicked" when get_mut panics or returns None
mark_visited(map, guard) ==
    LET cell == grid_get_mut(map, guard)
    IN  IF cell.tag = "Some"
        THEN Write(map, cell.ref, "X")
        ELSE [kind |-> "panicked", ROW |-> 0, COL |-> 0, matrix |-> <<>>]

\* One iteration of the loop of OfficePlan::simulate, from the peek of the
\* direction to the end of the `if let': the map and the locals afterwards
\* (a set, for the outcomes of guard + curr_direction).
simulate_iteration(map, sim) ==
    LET curr_direction == At(direction_list, sim.direction)
    IN  IF <<sim.guard, curr_direction>> \in sim.cycle_checker
        THEN {[map |-> map, sim |-> [sim EXCEPT !.status = "true", !.steps = @ + 1]]}
        ELSE
          LET seen == sim.cycle_checker \cup {<<sim.guard, curr_direction>>}
          IN  {IF peek_next.tag = "panic"
               THEN [map |-> map, sim |-> [sim EXCEPT !.status = "panic"]]
               ELSE
                 LET cell == grid_get_mut(map, peek_next.c)
                 IN  CASE cell.tag = "panic" ->
                            [map |-> map, sim |-> [sim EXCEPT !.status = "panic"]]
                       [] cell.tag = "None" ->
                            IF mark_visited(map, sim.guard).kind = "panicked"
                            THEN [map |-> map, sim |-> [sim EXCEPT !.status = "panic"]]
                            ELSE [map |-> mark_visited(map, sim.guard),
                                  sim |-> [sim EXCEPT !.status = "false",
                                                      !.cycle_checker = seen,
                                                      !.steps = @ + 1]]
                       [] cell.tag = "Some" /\ cell.val = "#" ->
                            [map |-> map,
                             sim |-> [sim EXCEPT !.direction = (@ + 1) % 4,
                                                 !.cycle_checker = seen,
                                                 !.steps = @ + 1]]
                       [] OTHER ->
                            IF mark_visited(map, sim.guard).kind = "panicked"
                            THEN [map |-> map, sim |-> [sim EXCEPT !.status = "panic"]]
                            ELSE [map |-> mark_visited(map, sim.guard),
                                  sim |-> [sim EXCEPT !.guard = peek_next.c,
                                                      !.stood = @ \cup {peek_next.c},
                                                      !.cycle_checker = seen,
                                                      !.steps = @ + 1]]
               : peek_next \in Coordinate_add_Direction(sim.guard, curr_direction)}

notOffice == <<graphVars, gridVars, walk, parsed, machine, maze, warehouse>>

\* let mut office_plan = OfficePlan::from(lines)
OfficePlanFrom ==
    /\ office.tag = "none"
    /\ \E value \in Plans(MaxOfficeRows, MaxOfficeCols) : office' = OfficePlan_from(value)
    /\ UNCHANGED notOffice

\* office_plan.simulate() up to the loop: guard, direction and cycle_checker
\* are initialised.
SimulateBegin ==
    /\ office.tag = "built" /\ office.sim.status = "none"
    /\ office' = [office EXCEPT !.sim =
           [status |-> "running", guard |-> office.guard_position, direction |-> 0,
            cycle_checker |-> {}, stood |-> {office.guard_position}, steps |-> 0]]
    /\ UNCHANGED notOffice

\* One iteration of the loop.
SimulateIteration ==
    /\ office.tag = "built" /\ office.sim.status = "running"
    /\ \E after \in simulate_iteration(office.map, office.sim) :
          office' = [office EXCEPT !.map = after.map, !.sim = after.sim]
    /\ UNCHANGED notOffice

NextOffice ==
    \/ OfficePlanFrom
    \/ SimulateBegin
    \/ SimulateIteration

SpecOffice == Init /\ [][NextOffice]_vars

(***************************************************************************)
(* Claims about day 6.                                                      *)
(***************************************************************************)
\* The plan as the input lines draw it: the cell with 0-based row i and
\* column j exists when line i has a character j.
OnPlan(lines, c) == InBounds(lines, c.i) /\ InBounds(At(lines, c.i), c.j)

NumCells(lines) == Len(Flatten(lines))

\* Where the '^' of the lines is.
GuardStart(lines) ==
    CHOOSE c \in {Coordinate(i, j) : i \in 0..(MaxOfficeRows + 1), j \in 0..(MaxOfficeCols + 1)} :
        OnPlan(lines, c) /\ At(At(lines, c.i), c.j) = "^"

\* The patrol of the puzzle: from pos facing the d-th direction of North,
\* East, South, West, turn right in front of a '#', step forward otherwise,
\* for at most `fuel' moves.  leaves: the guard stepped off the plan; cells:
\* the cells the guard stood on.  A guard that has not left after four moves
\* per cell is at a position and direction it was at before, and never leaves.
RECURSIVE Patrol(_, _, _, _, _)
Patrol(lines, pos, d, fuel, cells) ==
    LET off == Cardinal(direction_list[d + 1])
        ahead == Coordinate(pos.i + off[1], pos.j + off[2])
    IN  IF fuel = 0 THEN [leaves |-> FALSE, cells |-> cells]
        ELSE IF ~OnPlan(lines, ahead) THEN [leaves |-> TRUE, cells |-> cells]
        ELSE IF At(At(lines, ahead.i), ahead.j) = "#"
             THEN Patrol(lines, pos, (d + 1) % 4, fuel - 1, cells)
             ELSE Patrol(lines, ahead, d, fuel - 1, cells \cup {ahead})

PatrolOf(lines) ==
    Patrol(lines, GuardStart(lines), 0, 4 * NumCells(lines) + 1, {GuardStart(lines)})

\* The cells of the map that hold 'X'.
Marked(map) ==
    {Coordinate(i - 1, j - 1) : <<i, j>> \in
        {x \in (1..Len(map.matrix)) \X (1..(MaxOfficeCols + 1)) :
            x[2] <= Len(map.matrix[x[1]]) /\ map.matrix[x[1]][x[2]] = "X"}}

\* C17: OfficePlan::simulate terminates on every finite map containing the
\* guard (at most four iterations per cell and one more), and returns true
\* if and only if the guard is stuck in a loop and false if and only if the
\* guard steps off the map; when it returns false, the cells marked 'X' are
\* exactly the cells the guard stood on, including the start cell and the
\* last cell before leaving.
C17_Simulate ==
    (office.tag = "built" /\ office.sim.status # "none") =>
        LET patrol == PatrolOf(office.input)
        IN  /\ office.sim.status \in {"running", "true", "false"}
            /\ office.sim.steps <= 4 * NumCells(office.input) + 1
            /\ office.sim.status = "true" => ~patrol.leaves
            /\ office.sim.status = "false" =>
                  /\ patrol.leaves
                  /\ Marked(office.map) = patrol.cells
                  /\ office.sim.stood = patrol.cells

\* The same statement for the plans whose lines are equally long.
C17_SimulateRectangular ==
    (office.tag = "built" /\ office.sim.status # "none" /\ Rectangular(office.map)) =>
        LET patrol == PatrolOf(office.input)
        IN  /\ office.sim.status \in {"running", "true", "false"}
            /\ office.sim.steps <= 4 * NumCells(office.input) + 1
            /\ office.sim.status = "true" => ~patrol.leaves
            /\ office.sim.status = "false" =>
                  /\ patrol.leaves
                  /\ Marked(office.map) = patrol.cells
                  /\ office.sim.stood = patrol.cells

\* simulate panicked.
C17_WitnessPanic ==
    /\ office.tag = "built"
    /\ office.sim.status = "panic"

\* simulate returned true on a rectangular plan: the guard, with an obstacle
\* on each side, is back at its position facing North.
C17_WitnessLoop ==
    /\ office.tag = "built" /\ Rectangular(office.map)
    /\ office.sim.status = "true"
    /\ office.sim.steps = 5

\* simulate returned false on a rectangular plan after the guard turned.
C17_WitnessLeft ==
    /\ office.tag = "built" /\ Rectangular(office.map)
    /\ office.sim.status = "false"
    /\ office.sim.direction # 0
    /\ Cardinality(office.sim.stood) >= 3

(***************************************************************************)
(* Day 16 (src/day16.rs): the reindeer maze.  maze is                       *)
(* [tag, input, maze, start, end, run]: the input lines, ReindeerMaze::maze *)
(* (an UnsizedGrid<Objects>), ReindeerMaze::start and ::end, and the locals *)
(* of the call of find_lowest_cost: run = [status, min_score_grid, queue,   *)
(* result], status being "running", "done" or "panic".  An element of the   *)
(* queue is <<coordinate, direction, score>>.                               *)
(***************************************************************************)
MaxMazeRows == 2
MaxMazeCols == 3

\* ReindeerMaze::BASE_MULTIPLIER
BASE_MULTIPLIER == 1

\* ReindeerMaze::NINETY_DEGREE_TURN_MULTIPLIER
NINETY_DEGREE_TURN_MULTIPLIER == 1001

\* const INFINITY: u32 = u32::MAX; the model writes the largest integer it
\* has for it, the scores of the model's mazes staying far below.
INFINITY == I32Max

\* The lines of a maze with r x c cells inside a border of '#': 'S' at s,
\* 'E' at e, '#' at the cells of walls, '.' elsewhere (cells are 1-based
\* within the border).
MazeLines(r, c, s, e, walls) ==
    [i \in 1..(r + 2) |-> [j \in 1..(c + 2) |->
        IF i \in {1, r + 2} \/ j \in {1, c + 2} THEN "#"
        ELSE IF <<i - 1, j - 1>> = s THEN "S"
        ELSE IF <<i - 1, j - 1>> = e THEN "E"
        ELSE IF <<i - 1, j - 1>> \in walls THEN "#"
        ELSE "."]]

MazesOfSize(r, c) ==
    UNION {{MazeLines(r, c, se[1], se[2], walls) :
               walls \in SUBSET (PlanCells(r, c) \ {se[1], se[2]})} :
           se \in {x \in PlanCells(r, c) \X PlanCells(r, c) : x[1] # x[2]}}

\* The input files tried: every wall-bordered maze of up to rows x cols
\* inner cells with one 'S' and one 'E'.
Mazes(rows, cols) ==
    UNION {MazesOfSize(rc[1], rc[2]) : rc \in (1..rows) \X (1..cols)}

\* The match of ReindeerMaze::from on a character of these lines
Objects_of(e) ==
    CASE e = "#" -> "Wall"
      [] e = "." -> "Path"
      [] e = "S" -> "Start"
      [] e = "E" -> "End"

\* The place of the last `ch' of the lines in reading order, as a Coordinate
\* (start = Some(..) / end = Some(..) is assigned at each one met).
LastPlaceOf(value, ch) ==
    LET places == {x \in (1..Len(value)) \X (1..Len(value[1])) : value[x[1]][x[2]] = ch}
        last == CHOOSE x \in places :
                    \A y \in places : y[1] < x[1] \/ (y[1] = x[1] /\ y[2] <= x[2])
    IN  Coordinate(AsI32(last[1] - 1), AsI32(last[2] - 1))

\* ReindeerMaze::from on lines of equal length
ReindeerMaze_from(value) ==
    [tag |-> "built", input |-> value,
     maze |-> UnsizedGrid_new([i \in 1..Len(value) |->
                  [j \in 1..Len(value[1]) |-> Objects_of(value[i][j])]]),
     start |-> LastPlaceOf(value, "S"),
     end |-> LastPlaceOf(value, "E"),
     run |-> [status |-> "none"]]

\* Direction::rotate_180
rotate_180(d) ==
    CASE d = "North" -> "South"
      [] d = "East"  -> "West"
      [] d = "South" -> "North"
      [] d = "West"  -> "East"

\* UnsizedGrid::transform_from(&self.maze, |_| INFINITY)
transform_from_INFINITY(g) ==
    UnsizedGrid_new([i \in 1..Len(g.matrix) |->
                        [j \in 1..Len(g.matrix[i]) |-> INFINITY]])

\* self.start + dir / curr_coord + next_dir on coordinates inside a maze: no
\* overflow
Step(c, d) == Coordinate(c.i + Direction_offset(d)[1], c.j + Direction_offset(d)[2])

u32_min(a, b) == IF a <= b THEN a ELSE b

\* The first statement on the queue: for each direction of direction_list
\* whose cell next to the start is no Wall, push (coord, dir, score), the
\* score being BASE_MULTIPLIER to the East and
\* NINETY_DEGREE_TURN_MULTIPLIER otherwise.  get(coord).unwrap() panics
\* outside the grid.
RECURSIVE initial_queue(_, _, _)
initial_queue(self, dirs, queue) ==
    IF dirs = <<>> THEN [status |-> "running", queue |-> queue]
    ELSE LET dir == Head(dirs)
             coord == Step(self.start, dir)
             obj == grid_get(self.maze, coord)
         IN  IF obj.tag # "Some" THEN [status |-> "panic", queue |-> queue]
             ELSE IF obj.val = "Wall"
             THEN initial_queue(self, Tail(dirs), queue)
             ELSE initial_queue(self, Tail(dirs),
                      Append(queue,
                             <<coord, dir,
                               IF dir = "East" THEN BASE_MULTIPLIER
                               ELSE NINETY_DEGREE_TURN_MULTIPLIER>>))

\* The `for next_dir in Direction::direction_list()' of the loop body
RECURSIVE push_neighbours(_, _, _, _, _)
push_neighbours(queue, dirs, curr_coord, curr_dir, curr_score) ==
    IF dirs = <<>> THEN queue
    ELSE LET next_dir == Head(dirs)
         IN  IF next_dir = rotate_180(curr_dir)
             THEN push_neighbours(queue, Tail(dirs), curr_coord, curr_dir, curr_score)
             ELSE push_neighbours(
                      Append(queue,
                             <<Step(curr_coord, next_dir), next_dir,
                               curr_score +
                                 IF next_dir = rotate_180(curr_dir) \/ next_dir = curr_dir
                                 THEN BASE_MULTIPLIER
                                 ELSE NINETY_DEGREE_TURN_MULTIPLIER>>),
                      Tail(dirs), curr_coord, curr_dir, curr_score)

\* One iteration of `while let Some(..) = queue.pop_front()': the locals
\* afterwards.
find_lowest_cost_iteration(self, run) ==
    LET curr_coord == Head(run.queue)[1]
        curr_dir == Head(run.queue)[2]
        curr_score == Head(run.queue)[3]
        queue == Tail(run.queue)
        obj == grid_get(self.maze, curr_coord)
        curr_min == grid_get_mut(run.min_score_grid, curr_coord)
    IN  IF obj.tag # "Some" THEN [run EXCEPT !.status = "panic"]
        ELSE IF obj.val \in {"Wall", "Start"} THEN [run EXCEPT !.queue = queue]
        ELSE IF curr_min.tag # "Some" THEN [run EXCEPT !.status = "panic"]
        ELSE IF obj.val = "End"
        THEN [run EXCEPT !.queue = queue,
                         !.min_score_grid =
                             Write(@, curr_min.ref, u32_min(curr_score, curr_min.val))]
        ELSE IF curr_min.val <= curr_score THEN [run EXCEPT !.queue = queue]
        ELSE [run EXCEPT
                 !.min_score_grid =
                     Write(@, curr_min.ref, u32_min(curr_score, curr_min.val)),
                 !.queue = push_neighbours(queue, direction_list, curr_coord,
                                           curr_dir, curr_score)]

notMaze == <<graphVars, gridVars, walk, parsed, machine, office, warehouse>>

\* let reindeer_maze = ReindeerMaze::from(lines)
ReindeerMazeFrom ==
    /\ maze.tag = "none"
    /\ \E value \in Mazes(MaxMazeRows, MaxMazeCols) : maze' = ReindeerMaze_from(value)
    /\ UNCHANGED notMaze

\* reindeer_maze.find_lowest_cost() up to the loop
FindLowestCostBegin ==
    /\ maze.tag = "built" /\ maze.run.status = "none"
    /\ LET first == initial_queue(maze, direction_list, <<>>)
       IN  maze' = [maze EXCEPT !.run =
               [status |-> first.status,
                min_score_grid |-> transform_from_INFINITY(maze.maze),
                queue |-> first.queue, result |-> 0]]
    /\ UNCHANGED notMaze

\* One iteration of the loop.
FindLowestCostIteration ==
    /\ maze.tag = "built" /\ maze.run.status = "running" /\ maze.run.queue # <<>>
    /\ maze' = [maze EXCEPT !.run = find_lowest_cost_iteration(maze, maze.run)]
    /\ UNCHANGED notMaze

\* The queue is empty: *min_score_grid.get(&self.end).unwrap() is returned.
FindLowestCostReturn ==
    /\ maze.tag = "built" /\ maze.run.status = "running" /\ maze.run.queue = <<>>
    /\ LET answer == grid_get(maze.run.min_score_grid, maze.end)
       IN  maze' = [maze EXCEPT !.run =
               IF answer.tag = "Some"
               THEN [@ EXCEPT !.status = "done", !.result = answer.val]
               ELSE [@ EXCEPT !.status = "panic"]]
    /\ UNCHANGED notMaze

NextMaze ==
    \/ ReindeerMazeFrom
    \/ FindLowestCostBegin
    \/ FindLowestCostIteration
    \/ FindLowestCostReturn

SpecMaze == Init /\ [][NextMaze]_vars

(***************************************************************************)
(* Claims about day 16.                                                     *)
(***************************************************************************)
\* More than every cost in the mazes of the model.
Unreached == 1000 * 1000

\* The cells of the lines that are no wall, as Coordinates.
OpenCells(lines) ==
    {Coordinate(x[1] - 1, x[2] - 1) :
        x \in {y \in (1..Len(lines)) \X (1..Len(lines[1])) : lines[y[1]][y[2]] # "#"}}

\* The reindeer's situations: an open cell and the direction faced.
Situations(lines) == OpenCells(lines) \X {"North", "East", "South", "West"}

QuarterTurns(d) == IF d \in {"North", "South"} THEN {"East", "West"} ELSE {"North", "South"}

Least(S) == CHOOSE m \in S : \A n \in S : m <= n

\* The costs found so far are kept as a set of pairs <<situation, cost>>.
CostOf(costs, s) == (CHOOSE p \in costs : p[1] = s)[2]

\* One more round of the shortest-cost recurrence: a situation is reached
\* by a forward step (cost 1) from the open cell behind, facing the same way,
\* or by a quarter turn (cost 1000) on the spot.
Relaxed(lines, costs) ==
    {<<p[1],
       LET s == p[1]
           behind == Coordinate(s[1].i - Cardinal(s[2])[1], s[1].j - Cardinal(s[2])[2])
       IN  Least({p[2]}
                 \cup {CostOf(costs, <<s[1], t>>) + 1000 : t \in QuarterTurns(s[2])}
                 \cup (IF lines[behind.i + 1][behind.j + 1] # "#"
                       THEN {CostOf(costs, <<behind, s[2]>>) + 1}
                       ELSE {}))>> : p \in costs}

RECURSIVE CostsAfter(_, _, _)
CostsAfter(lines, costs, rounds) ==
    IF rounds = 0 THEN costs ELSE CostsAfter(lines, Relaxed(lines, costs), rounds - 1)

\* The minimum total cost of a walk from Start facing East to End, or
\* Unreached and more when there is none.
LowestCost(lines) ==
    LET from == LastPlaceOf(lines, "S")
        to == LastPlaceOf(lines, "E")
        first == {<<s, IF s = <<from, "East">> THEN 0 ELSE Unreached>> :
                     s \in Situations(lines)}
        final == CostsAfter(lines, first, Cardinality(first))
    IN  Least({CostOf(final, <<to, d>>) : d \in {"North", "East", "South", "West"}})

\* C18: find_lowest_cost returns the minimum total cost over all walks from
\* Start, initially facing East, to End through non-Wall cells, a forward
\* step costing 1 and a 90-degree turn 1000 (reversing at the start costs two
\* turns), for every wall-bordered maze in which End is reachable.
C18_FindLowestCost ==
    (maze.tag = "built" /\ maze.run.status # "none"
        /\ LowestCost(maze.input) < Unreached) =>
        /\ maze.run.status # "panic"
        /\ maze.run.status = "done" => maze.run.result = LowestCost(maze.input)

\* The same statement for the mazes in which no cheapest walk starts by
\* reversing: the cell west of Start is a wall.
C18_FindLowestCostNoReversal ==
    (maze.tag = "built" /\ maze.run.status # "none"
        /\ LowestCost(maze.input) < Unreached
        /\ grid_get(maze.maze, Step(maze.start, "West")).val = "Wall") =>
        /\ maze.run.status # "panic"
        /\ maze.run.status = "done" => maze.run.result = LowestCost(maze.input)

\* find_lowest_cost returned on the maze "#ES#".
C18_WitnessReversal ==
    /\ maze.tag = "built" /\ maze.run.status = "done"
    /\ maze.input = <<<<"#", "#", "#", "#">>, <<"#", "E", "S", "#">>, <<"#", "#", "#", "#">>>>
    /\ maze.run.result = 1001

(***************************************************************************)
(* Day 15: WarehouseRobot<ObjectNormal> and                                *)
(* WarehouseRobot<ObjectMalfunctioning>.  A robot is the record            *)
(* [map, robot_pos, panic]: panic is "" while the program runs and names   *)
(* the panic!/unreachable!/unwrap that ended it otherwise.                 *)
(***************************************************************************)
MaxWarehouseRows == 3
MaxWarehouseCols == 3
MaxBoxes == 2
MaxInnerWalls == 1
MaxTimes == 2

\* The map lines of an input file: a border of '#', the robot '@' at cell
\* robot, 'O' at the cells of boxes, '#' at the cells of walls, '.' elsewhere.
WarehouseLines(r, c, robot, boxes, walls) ==
    [i \in 1..(r + 2) |-> [j \in 1..(c + 2) |->
        IF i \in {1, r + 2} \/ j \in {1, c + 2} THEN "#"
        ELSE IF <<i - 1, j - 1>> = robot THEN "@"
        ELSE IF <<i - 1, j - 1>> \in boxes THEN "O"
        ELSE IF <<i - 1, j - 1>> \in walls THEN "#"
        ELSE "."]]

WarehousesWithRobotAt(r, c, robot) ==
    UNION {{WarehouseLines(r, c, robot, boxes, walls) :
               walls \in SubsetsUpTo(PlanCells(r, c) \ ({robot} \cup boxes), MaxInnerWalls)} :
           boxes \in SubsetsUpTo(PlanCells(r, c) \ {robot}, MaxBoxes)}

\* The input maps tried: rectangular, of up to rows x cols inner cells,
\* bordered by '#', one '@'.
Warehouses(rows, cols) ==
    UNION {WarehousesWithRobotAt(x[1], x[2], <<x[3], x[4]>>) :
           x \in {y \in (1..rows) \X (1..cols) \X (1..rows) \X (1..cols) :
                     y[3] <= y[1] /\ y[4] <= y[2]}}

\* The moves process_input hands out: a direction and how often it is
\* repeated in a row.
Moves == (1..MaxTimes) \X {"North", "East", "South", "West"}

\* The cell of Coordinate::new(i, j) for a character of the map
ObjectNormal_of(c) ==
    CASE c = "@" -> "Robot"
      [] c = "#" -> "Wall"
      [] c = "." -> "Empty"
      [] c = "O" -> "Box"

\* The cells at coord and coord + East for a character of the map
ObjectMalfunctioning_of(c) ==
    CASE c = "@" -> <<"Robot", "Empty">>
      [] c = "#" -> <<"Wall", "Wall">>
      [] c = "." -> <<"Empty", "Empty">>
      [] c = "O" -> <<"BoxLeft", "BoxRight">>

\* robot_pos: the coordinate given to the '@' of the map
robot_pos_of(map, step) ==
    LET i == CHOOSE i \in 1..Len(map) : \E j \in 1..Len(map[i]) : map[i][j] = "@"
        j == CHOOSE j \in 1..Len(map[i]) : map[i][j] = "@"
    IN  Coordinate(i - 1, step * (j - 1))

\* impl From<Vec<String>> for WarehouseRobot<ObjectNormal>
WarehouseRobot_from_Normal(map) ==
    [map |-> UnsizedGrid_new([i \in 1..Len(map) |->
                 [j \in 1..Len(map[1]) |-> ObjectNormal_of(map[i][j])]]),
     robot_pos |-> robot_pos_of(map, 1),
     panic |-> ""]

\* impl From<Vec<String>> for WarehouseRobot<ObjectMalfunctioning>: every
\* character fills two cells
WarehouseRobot_from_Malfunctioning(map) ==
    [map |-> UnsizedGrid_new([i \in 1..Len(map) |->
                 [j \in 1..(Len(map[1]) * 2) |->
                     ObjectMalfunctioning_of(map[i][(j + 1) \div 2])[2 - (j % 2)]]]),
     robot_pos |-> robot_pos_of(map, 2),
     panic |-> ""]

\* *self.map.get_mut(&coord).unwrap() = obj
set_cell(w, coord, obj) ==
    LET cell == grid_get_mut(w.map, coord)
    IN  IF w.panic # "" THEN w
        ELSE IF cell.tag # "Some" THEN [w EXCEPT !.panic = "unwrap"]
        ELSE [w EXCEPT !.map = Write(@, cell.ref, obj)]

\* The `while _times != 0' of move_box: the robot and the times left
RECURSIVE move_box_search(_, _, _, _)
move_box_search(w, dir, times_left, space_searcher) ==
    IF times_left = 0 \/ w.panic # "" THEN [w |-> w, times_left |-> times_left]
    ELSE LET cell == grid_get(w.map, space_searcher)
         IN  IF cell.tag # "Some"
             THEN [w |-> [w EXCEPT !.panic = "unwrap"], times_left |-> times_left]
             ELSE IF cell.val = "Wall" THEN [w |-> w, times_left |-> times_left]
             ELSE IF cell.val = "Empty"
             THEN move_box_search(set_cell(w, space_searcher, "Box"), dir,
                                  times_left - 1, Step(space_searcher, dir))
             ELSE IF cell.val = "Box"
             THEN move_box_search(w, dir, times_left, Step(space_searcher, dir))
             ELSE [w |-> [w EXCEPT !.panic = "robot in the path"],
                   times_left |-> times_left]

\* Mutant of move_box_walk: the cell the robot leaves is not emptied.
RECURSIVE move_box_walk_not_emptied(_, _, _)
move_box_walk_not_emptied(w, dir, boxes_to_move) ==
    IF boxes_to_move = 0 \/ w.panic # "" THEN w
    ELSE move_box_walk_not_emptied([w EXCEPT !.robot_pos = Step(@, dir)],
                                   dir, boxes_to_move - 1)

\* The `for _ in 0..boxes_to_move' of move_box
RECURSIVE move_box_walk(_, _, _)
move_box_walk(w, dir, boxes_to_move) ==
    IF boxes_to_move = 0 \/ w.panic # "" THEN w
    ELSE LET emptied == set_cell(w, w.robot_pos, "Empty")
         IN  move_box_walk(IF emptied.panic # "" THEN emptied
                           ELSE [emptied EXCEPT !.robot_pos = Step(@, dir)],
                           dir, boxes_to_move - 1)

\* WarehouseRobot<ObjectNormal>::move_box
move_box(w, times, dir) ==
    LET searched == move_box_search(w, dir, times, Step(w.robot_pos, dir))
        walked == move_box_walk(searched.w, dir, times - searched.times_left)
    IN  set_cell(walked, walked.robot_pos, "Robot")

\* slice.rotate_right(1)
rotate_right(s) == <<s[Len(s)]>> \o SubSeq(s, 1, Len(s) - 1)

\* slice.rotate_left(1)
rotate_left(s) == SubSeq(s, 2, Len(s)) \o <<s[1]>>

\* get_row_mut(i) and row[lo..=hi].rotate_right(1) or rotate_left(1): the
\* row index, the slice and the rotation of an empty slice panic.
rotate_in_row(w, i, lo, hi, dir) ==
    LET row == get_row(w.map, i)
        cells == At(w.map.matrix, i)
        turned == IF dir = "East"
                  THEN rotate_right(SubSeq(cells, lo + 1, hi + 1))
                  ELSE rotate_left(SubSeq(cells, lo + 1, hi + 1))
    IN  IF i < 0 \/ row.tag # "Some" THEN [w EXCEPT !.panic = "unwrap"]
        ELSE IF lo < 0 \/ hi < 0 \/ lo > hi \/ hi >= row.len
        THEN [w EXCEPT !.panic = "slice"]
        ELSE [w EXCEPT !.map.matrix[i + 1] =
                 SubSeq(cells, 1, lo) \o turned \o SubSeq(cells, hi + 2, Len(cells))]

\* The `while _times != 0' of move_horizontally
RECURSIVE move_horizontally_search(_, _, _, _)
move_horizontally_search(w, dir, times_left, space_searcher) ==
    IF times_left = 0 \/ w.panic # "" THEN w
    ELSE LET cell == grid_get(w.map, space_searcher)
             lo == IF dir = "East" THEN w.robot_pos.j ELSE space_searcher.j
             hi == IF dir = "East" THEN space_searcher.j ELSE w.robot_pos.j
             rotated == rotate_in_row(w, space_searcher.i, lo, hi, dir)
         IN  IF cell.tag # "Some" THEN [w EXCEPT !.panic = "unwrap"]
             ELSE IF cell.val = "Wall" THEN w
             ELSE IF cell.val = "Empty"
             THEN move_horizontally_search(
                      IF rotated.panic # "" THEN rotated
                      ELSE [rotated EXCEPT !.robot_pos = Step(@, dir)],
                      dir, times_left - 1, Step(space_searcher, dir))
             ELSE IF cell.val \in {"BoxLeft", "BoxRight"}
             THEN move_horizontally_search(w, dir, times_left, Step(space_searcher, dir))
             ELSE [w EXCEPT !.panic = "robot in the path"]

\* WarehouseRobot<ObjectMalfunctioning>::move_horizontally
move_horizontally(w, times, dir) ==
    move_horizontally_search(w, dir, times, Step(w.robot_pos, dir))

\* Mutant of can_move_vertically: the other half of a box is not looked at.
RECURSIVE can_move_vertically_one_half(_, _, _, _)
can_move_vertically_one_half(map, dir, box_part, visited) ==
    LET seen == visited \cup {box_part}
        cell == grid_get(map, box_part)
    IN  IF box_part \in visited THEN [result |-> TRUE, visited |-> visited, panic |-> ""]
        ELSE IF cell.tag # "Some"
        THEN [result |-> FALSE, visited |-> seen, panic |-> "unwrap"]
        ELSE IF cell.val = "Wall" THEN [result |-> FALSE, visited |-> seen, panic |-> ""]
        ELSE IF cell.val = "Empty" THEN [result |-> TRUE, visited |-> seen, panic |-> ""]
        ELSE IF cell.val = "Robot"
        THEN [result |-> FALSE, visited |-> seen, panic |-> "robot in the path"]
        ELSE can_move_vertically_one_half(map, dir, Step(box_part, dir), seen)

\* can_move_vertically: the answer, the visited set afterwards and the panic
RECURSIVE can_move_vertically(_, _, _, _)
can_move_vertically(map, dir, box_part, visited) ==
    LET seen == visited \cup {box_part}
        cell == grid_get(map, box_part)
        first == can_move_vertically(map, dir,
                     Step(box_part, IF cell.val = "BoxLeft" THEN dir ELSE "West"), seen)
    IN  IF box_part \in visited THEN [result |-> TRUE, visited |-> visited, panic |-> ""]
        ELSE IF cell.tag # "Some"
        THEN [result |-> FALSE, visited |-> seen, panic |-> "unwrap"]
        ELSE IF cell.val = "Wall" THEN [result |-> FALSE, visited |-> seen, panic |-> ""]
        ELSE IF cell.val = "Empty" THEN [result |-> TRUE, visited |-> seen, panic |-> ""]
        ELSE IF cell.val = "Robot"
        THEN [result |-> FALSE, visited |-> seen, panic |-> "robot in the path"]
        ELSE IF first.panic # "" \/ ~first.result THEN first
        ELSE can_move_vertically(map, dir,
                 Step(box_part, IF cell.val = "BoxLeft" THEN "East" ELSE dir),
                 first.visited)

\* recursively_move_vertically on r = [map, visited, panic]
RECURSIVE recursively_move_vertically(_, _, _, _)
recursively_move_vertically(r, dir, box_part, part) ==
    LET seen == [r EXCEPT !.visited = @ \cup {box_part}]
        cell == grid_get(r.map, box_part)
        above == Step(box_part, dir)
        east == Step(box_part, "East")
        west == Step(box_part, "West")
    IN  IF r.panic # "" \/ box_part \in r.visited THEN r
        ELSE IF cell.tag # "Some" THEN [seen EXCEPT !.panic = "unwrap"]
        ELSE IF cell.val = "Wall" THEN [seen EXCEPT !.panic = "wall"]
        ELSE IF cell.val = "Empty" THEN set_cell(seen, box_part, part)
        ELSE IF cell.val = "Robot" THEN [seen EXCEPT !.panic = "robot in the path"]
        ELSE IF cell.val = "BoxLeft"
        THEN LET lefts == recursively_move_vertically(seen, dir, above, "BoxLeft")
                 moved == set_cell(set_cell(lefts, box_part, "Empty"), above, "BoxLeft")
                 rights == recursively_move_vertically(moved, dir, east, "BoxRight")
             IN  set_cell(rights, east, "Empty")
        ELSE LET lefts == recursively_move_vertically(seen, dir, west, "BoxLeft")
                 cleared == set_cell(lefts, west, "Empty")
                 rights == recursively_move_vertically(cleared, dir, above, "BoxRight")
             IN  set_cell(set_cell(rights, box_part, "Empty"), above, "BoxRight")

\* move_box_vertically: the robot afterwards and the bool returned
move_box_vertically(w, dir, left_box, right_box) ==
    LET left == grid_get(w.map, left_box)
        right == grid_get(w.map, right_box)
        can == can_move_vertically(w.map, dir, left_box, {})
        moved == recursively_move_vertically(
                     [map |-> w.map, visited |-> {}, panic |-> ""],
                     dir, right_box, "BoxRight")
    IN  IF left.tag # "Some" \/ right.tag # "Some"
        THEN [w |-> [w EXCEPT !.panic = "unwrap"], result |-> FALSE]
        ELSE IF ~(left.val = "BoxLeft" /\ right.val = "BoxRight")
        THEN [w |-> [w EXCEPT !.panic = "invalid box configuration"], result |-> FALSE]
        ELSE IF can.panic # ""
        THEN [w |-> [w EXCEPT !.panic = can.panic], result |-> FALSE]
        ELSE IF can.result
        THEN [w |-> [w EXCEPT !.map = moved.map, !.panic = moved.panic], result |-> TRUE]
        ELSE [w |-> w, result |-> FALSE]

\* WarehouseRobot<ObjectMalfunctioning>::move_vertically
RECURSIVE move_vertically(_, _, _)
move_vertically(w, times, dir) ==
    LET next == Step(w.robot_pos, dir)
        cell == grid_get(w.map, next)
        pushed == IF cell.val = "BoxLeft"
                  THEN move_box_vertically(w, dir, next, Step(next, "East"))
                  ELSE move_box_vertically(w, dir, Step(next, "West"), next)
        cleared == set_cell(IF cell.val = "Empty" THEN w ELSE pushed.w,
                            w.robot_pos, "Empty")
        stepped == set_cell([cleared EXCEPT !.robot_pos = next], next, "Robot")
    IN  IF times = 0 \/ w.panic # "" THEN w
        ELSE IF cell.tag # "Some" THEN [w EXCEPT !.panic = "unwrap"]
        ELSE IF cell.val = "Wall" THEN w
        ELSE IF cell.val = "Robot" THEN [w EXCEPT !.panic = "robot in the path"]
        ELSE IF cell.val = "Empty" THEN move_vertically(stepped, times - 1, dir)
        ELSE IF pushed.w.panic # "" THEN pushed.w
        ELSE IF ~pushed.result THEN w
        ELSE move_vertically(stepped, times - 1, dir)

\* One turn of the `for (times, direction) in moves' of start_simulation
start_simulation_move(kind, w, times, dir) ==
    IF kind = "ObjectNormal" THEN move_box(w, times, dir)
    ELSE IF dir \in {"North", "South"} THEN move_vertically(w, times, dir)
    ELSE move_horizontally(w, times, dir)

\* The object at coordinate c of a map of the warehouse
ObjectAt(map, c) == map.matrix[c.i + 1][c.j + 1]

\* The cells of a map that hold obj
CellsOf(map, obj) ==
    {c \in {Coordinate(i - 1, j - 1) : i \in 1..Len(map.matrix),
                                       j \in 1..Len(map.matrix[1])} :
        ObjectAt(map, c) = obj}

\* The map as WarehouseRobot::from built it from the input lines
Built15(kind, lines) ==
    IF kind = "ObjectNormal" THEN WarehouseRobot_from_Normal(lines).map
    ELSE WarehouseRobot_from_Malfunctioning(lines).map

notWarehouse == <<graphVars, gridVars, walk, parsed, machine, office, maze>>

\* WarehouseRobot::<T>::from(lines) for T = ObjectNormal or ObjectMalfunctioning
WarehouseRobotFrom ==
    /\ warehouse.tag = "none"
    /\ \E kind \in {"ObjectNormal", "ObjectMalfunctioning"}, map \in Warehouses(MaxWarehouseRows, MaxWarehouseCols) :
          warehouse' = [tag |-> "built", kind |-> kind,
                        robot |-> IF kind = "ObjectNormal"
                                  THEN WarehouseRobot_from_Normal(map)
                                  ELSE WarehouseRobot_from_Malfunctioning(map),
                        last |-> <<0, "Current">>,
                        before |-> <<>>,
                        walls |-> CellsOf(Built15(kind, map), "Wall"),
                        boxes |-> [b \in {"Box", "BoxLeft", "BoxRight"} |->
                                     Cardinality(CellsOf(Built15(kind, map), b))]]
    /\ UNCHANGED notWarehouse

\* start_simulation takes the next move off self.moves; process_input has
\* grouped equal directions, so a move never repeats the direction of the
\* move before it.
StartSimulationMove ==
    /\ warehouse.tag = "built"
    /\ warehouse.robot.panic = ""
    /\ \E move \in Moves :
          /\ move[2] # warehouse.last[2]
          /\ warehouse' = [warehouse EXCEPT
                 !.robot = start_simulation_move(warehouse.kind, @, move[1], move[2]),
                 !.last = move,
                 !.before = <<warehouse.robot>>]
    /\ UNCHANGED notWarehouse

NextWarehouse == WarehouseRobotFrom \/ StartSimulationMove

SpecWarehouse == Init /\ [][NextWarehouse]_vars

(***************************************************************************)
(* Day 15, the claims.                                                     *)
(***************************************************************************)
\* The robot before the last move
Before == warehouse.before[1]

Moved == warehouse.tag = "built" /\ warehouse.before # <<>>

\* C19: in both warehouse simulations, from any rectangular map bordered by
\* Wall with exactly one Robot and after any sequence of moves, no panic!,
\* unreachable! or unwrap of None has been reached.
C19_NoPanic ==
    warehouse.tag = "built" => warehouse.robot.panic = ""

\* The malfunctioning robot has just pushed, upwards or downwards, a box that
\* stands on an odd column: no character of the input put it there.
C19_WitnessVertical ==
    /\ Moved
    /\ warehouse.kind = "ObjectMalfunctioning"
    /\ warehouse.last[2] \in {"North", "South"}
    /\ warehouse.robot.robot_pos # Before.robot_pos
    /\ ObjectAt(Before.map, warehouse.robot.robot_pos) = "BoxRight"
    /\ warehouse.robot.robot_pos.j % 2 = 0
    /\ warehouse.robot.panic = ""

\* The normal robot has just pushed a box.
C19_WitnessNormal ==
    /\ Moved
    /\ warehouse.kind = "ObjectNormal"
    /\ ObjectAt(Before.map, warehouse.robot.robot_pos) = "Box"
    /\ warehouse.robot.panic = ""


\* The first cell from c on in direction dir that holds none of pass
RECURSIVE FirstBeyond(_, _, _, _)
FirstBeyond(map, c, dir, pass) ==
    IF ObjectAt(map, c) \in pass THEN FirstBeyond(map, Step(c, dir), dir, pass) ELSE c

\* The left half of the wide box that has a half at c
BoxOf(map, c) == IF ObjectAt(map, c) = "BoxLeft" THEN c ELSE Step(c, "West")

\* The cells just beyond the wide boxes (given by their left halves)
Beyond(boxes, dir) ==
    UNION {{Step(l, dir), Step(Step(l, "East"), dir)} : l \in boxes}

\* The wide boxes that have to move with the boxes given
RECURSIVE Pushed(_, _, _)
Pushed(map, dir, boxes) ==
    LET more == boxes \cup {BoxOf(map, c) :
                    c \in {b \in Beyond(boxes, dir) :
                              ObjectAt(map, b) \in {"BoxLeft", "BoxRight"}}}
    IN  IF more = boxes THEN boxes ELSE Pushed(map, dir, more)

\* The robot w cannot make one step in direction dir: a wall is next to it,
\* or next to the boxes it would push.
Blocked(kind, w, dir) ==
    LET ahead == Step(w.robot_pos, dir)
    IN  IF kind = "ObjectNormal"
        THEN ObjectAt(w.map, FirstBeyond(w.map, ahead, dir, {"Box"})) = "Wall"
        ELSE IF dir \in {"East", "West"}
        THEN ObjectAt(w.map, FirstBeyond(w.map, ahead, dir, {"BoxLeft", "BoxRight"})) = "Wall"
        ELSE \/ ObjectAt(w.map, ahead) = "Wall"
             \/ /\ ObjectAt(w.map, ahead) \in {"BoxLeft", "BoxRight"}
                /\ \E c \in Beyond(Pushed(w.map, dir, {BoxOf(w.map, ahead)}), dir) :
                      ObjectAt(w.map, c) = "Wall"

\* C20: in both warehouse simulations, after any sequence of moves on a
\* wall-bordered map, the Wall cells are those of the map built, the number of
\* Box cells (of BoxLeft cells and of BoxRight cells) is that of the map
\* built, exactly one cell holds Robot and it is the cell at robot_pos, and a
\* move that is blocked (by a wall, or by a box group that cannot move) has
\* left the whole map and robot_pos unchanged.
C20_Invariants ==
    warehouse.tag = "built" =>
        /\ CellsOf(warehouse.robot.map, "Wall") = warehouse.walls
        /\ \A b \in {"Box", "BoxLeft", "BoxRight"} :
              Cardinality(CellsOf(warehouse.robot.map, b)) = warehouse.boxes[b]
        /\ CellsOf(warehouse.robot.map, "Robot") = {warehouse.robot.robot_pos}
        /\ (Moved /\ Blocked(warehouse.kind, Before, warehouse.last[2])) =>
              /\ warehouse.robot.map = Before.map
              /\ warehouse.robot.robot_pos = Before.robot_pos

\* The malfunctioning robot has just pushed upwards or downwards against a
\* box that another box with a wall beyond it keeps from moving.
C20_WitnessBlockedGroup ==
    /\ Moved
    /\ warehouse.kind = "ObjectMalfunctioning"
    /\ warehouse.last[2] \in {"North", "South"}
    /\ ObjectAt(Before.map, Step(Before.robot_pos, warehouse.last[2]))
          \in {"BoxLeft", "BoxRight"}
    /\ Cardinality(Pushed(Before.map, warehouse.last[2],
           {BoxOf(Before.map, Step(Before.robot_pos, warehouse.last[2]))})) = 2
    /\ Blocked(warehouse.kind, Before, warehouse.last[2])
    /\ warehouse.robot = Before

\* A robot has just pushed a box and moved on.
C20_WitnessPushed ==
    /\ Moved
    /\ warehouse.last[1] = 2
    /\ ~Blocked(warehouse.kind, Before, warehouse.last[2])
    /\ CellsOf(warehouse.robot.map, "Box") \cup CellsOf(warehouse.robot.map, "BoxLeft")
          # CellsOf(Before.map, "Box") \cup CellsOf(Before.map, "BoxLeft")

(***************************************************************************)
(* Day 6, part 2: OfficePlan::count_obstruction_points.  While it runs the  *)
(* office is [tag |-> "count", input, map, guard_position, status, points, *)
(* count]: points are the trial cells still to come.                       *)
(***************************************************************************)
\* The locals of simulate before its loop
simulate_locals(guard_position) ==
    [status |-> "running", guard |-> guard_position, direction |-> 0,
     cycle_checker |-> {}, stood |-> {guard_position}, steps |-> 0]

\* The loop of simulate run to its return or panic: the outcomes [map, sim]
RECURSIVE simulate_loop(_, _)
simulate_loop(map, sim) ==
    UNION {IF after.sim.status = "running"
           THEN simulate_loop(after.map, after.sim)
           ELSE {after} : after \in simulate_iteration(map, sim)}

\* OfficePlan::simulate
simulate(map, guard_position) == simulate_loop(map, simulate_locals(guard_position))

\* row.filter_map(|(coord, &e)| (e == 'X').then(|| coord)) appended to points
RECURSIVE filter_map_row(_, _, _)
filter_map_row(g, inner, points) ==
    LET next == RowIter_next(g, inner)
    IN  IF next.tag # "Some" THEN points
        ELSE filter_map_row(g, next.inner,
                 IF next.item.val = "X" THEN Append(points, next.item.coord)
                 ELSE points)

\* self.map.iter().flat_map(..).collect::<Vec<_>>() : the coordinates of the
\* 'X' cells in the order of iteration
RECURSIVE collect_points(_, _, _)
collect_points(g, outer, points) ==
    LET next == GridIter_next(g, outer)
    IN  IF next.tag # "Some" THEN points
        ELSE collect_points(g, next.outer, filter_map_row(g, next.inner, points))

\* *self.map.get_mut(&point).unwrap() = e : the map afterwards, of kind
\* "panicked" when get_mut panics or returns None
set_point(map, point, e) ==
    LET cell == IF map.kind = "panicked" THEN Panic ELSE grid_get_mut(map, point)
    IN  IF cell.tag = "Some"
        THEN Write(map, cell.ref, e)
        ELSE [kind |-> "panicked", ROW |-> 0, COL |-> 0, matrix |-> <<>>]

\* One turn of the `for point in ..' of count_obstruction_points: the map
\* afterwards, what `self.simulate() as usize' added, and whether it panicked
count_obstruction_trial(map, guard_position, point) ==
    {[map |-> IF after.sim.status = "panic" THEN after.map
              ELSE set_point(after.map, point, "."),
      status |-> IF after.sim.status = "panic"
                    \/ set_point(after.map, point, ".").kind = "panicked"
                 THEN "panic" ELSE "running",
      add |-> IF after.sim.status = "true" THEN 1 ELSE 0] :
        after \in IF set_point(map, point, "#").kind = "panicked"
                  THEN {[map |-> set_point(map, point, "#"), sim |-> [status |-> "panic"]]}
                  ELSE simulate(set_point(map, point, "#"), guard_position)}

\* count_obstruction_points up to its loop: self.simulate(), count = 0 and
\* the points collected
CountObstructionPointsBegin ==
    /\ office.tag = "built" /\ office.sim.status = "none"
    /\ \E first \in simulate(office.map, office.guard_position) :
          office' = [tag |-> "count", input |-> office.input,
                     guard_position |-> office.guard_position,
                     map |-> first.map,
                     status |-> IF first.sim.status = "panic" THEN "panic" ELSE "running",
                     points |-> IF first.sim.status = "panic" THEN <<>>
                                ELSE collect_points(first.map, GridIter_new, <<>>),
                     count |-> 0]
    /\ UNCHANGED notOffice

\* One turn of the loop over the points
CountObstructionPointsTrial ==
    /\ office.tag = "count" /\ office.status = "running" /\ office.points # <<>>
    /\ \E trial \in count_obstruction_trial(office.map, office.guard_position,
                                            Head(office.points)) :
          office' = [office EXCEPT !.map = trial.map,
                                   !.status = trial.status,
                                   !.count = @ + trial.add,
                                   !.points = Tail(@)]
    /\ UNCHANGED notOffice

\* count_obstruction_points returns count
CountObstructionPointsReturn ==
    /\ office.tag = "count" /\ office.status = "running" /\ office.points = <<>>
    /\ office' = [office EXCEPT !.status = "done"]
    /\ UNCHANGED notOffice

NextCount ==
    \/ OfficePlanFrom
    \/ CountObstructionPointsBegin
    \/ CountObstructionPointsTrial
    \/ CountObstructionPointsReturn

SpecCount == Init /\ [][NextCount]_vars

\* The cells of the lines that hold e
CellsWith(lines, e) ==
    {c \in {Coordinate(i, j) : i \in 0..(MaxOfficeRows + 1), j \in 0..(MaxOfficeCols + 1)} :
        OnPlan(lines, c) /\ At(At(lines, c.i), c.j) = e}

\* The lines with an obstacle put at c
WithObstacle(lines, c) == [lines EXCEPT ![c.i + 1][c.j + 1] = "#"]

\* The free cells, other than the guard's, where one more obstacle keeps the
\* guard of the puzzle on the plan for ever
ObstructionPoints(lines) ==
    {c \in CellsWith(lines, ".") : ~PatrolOf(WithObstacle(lines, c)).leaves}

\* C21: count_obstruction_points returns the number of cells, other than the
\* guard's starting cell, such that turning that single cell into an obstacle
\* in the original map makes the guard loop forever, and the '#' cells after
\* the call are those before it.
C21_CountObstructionPoints ==
    office.tag = "count" =>
        /\ office.status # "panic"
        /\ office.status = "done" =>
              /\ office.count = Cardinality(ObstructionPoints(office.input))
              /\ CellsWith(office.map.matrix, "#") = CellsWith(office.input, "#")

\* The same statement for the rectangular plans that the guard leaves when
\* no obstacle is added.
C21_CountWhenGuardLeaves ==
    (office.tag = "count" /\ Rectangular(office.map)
        /\ PatrolOf(office.input).leaves) =>
        /\ office.status # "panic"
        /\ office.status = "done" =>
              /\ office.count = Cardinality(ObstructionPoints(office.input))
              /\ CellsWith(office.map.matrix, "#") = CellsWith(office.input, "#")

\* On every rectangular plan the call returns and leaves the '#' cells as
\* they were.
C21_ObstaclesKept ==
    (office.tag = "count" /\ Rectangular(office.map)) =>
        /\ office.status # "panic"
        /\ office.status = "done" =>
              CellsWith(office.map.matrix, "#") = CellsWith(office.input, "#")

\* count_obstruction_points returned 0 on the plan ".#." / "#^#" / ".#.",
\* where the guard turns on the spot for ever whatever is added.
C21_WitnessEnclosed ==
    /\ office.tag = "count" /\ office.status = "done"
    /\ office.input = <<<<".", "#", ".">>, <<"#", "^", "#">>, <<".", "#", ".">>>>
    /\ office.count = 0
    /\ Cardinality(ObstructionPoints(office.input)) = 4

\* count_obstruction_points panicked.
C21_WitnessPanic ==
    office.tag = "count" /\ office.status = "panic"

\* count_obstruction_points returned a count above 0 on a plan the guard
\* leaves.
C21_WitnessCounted ==
    /\ office.tag = "count" /\ office.status = "done"
    /\ PatrolOf(office.input).leaves
    /\ office.count > 0

=============================================================================
